---- MODULE Spec2Model ----
(***************************************************************************)
(* Session handling of the ESP32 firmware sketches.                        *)
(*                                                                         *)
(*  - CommunicationModule (Esp-32_LED): a table of MAX_CLIENTS TCP client  *)
(*    slots served by a single polling loop, update(), which runs          *)
(*    handleNewClients, handleClientMessages and, once per                 *)
(*    UPDATE_INTERVAL, sendDataToClients and removeInactiveClients.        *)
(*  - servo_server: a single-client TCP server, one loop() pass per step.  *)
(*                                                                         *)
(* The peers (connect, send a line, close) and the clock are the           *)
(* environment.  Every server action records what it wrote in the          *)
(* observation variables sent / refused (and srvOut for the     *)
(* servo server), which hold the effect of the latest step only.           *)
(***************************************************************************)
EXTENDS Integers, Sequences, FiniteSets, TLC

(***************************************************************************)
(* Program constants                                                       *)
(***************************************************************************)
MAX_CLIENTS == 5
HEARTBEAT_TIMEOUT == 30000
UPDATE_INTERVAL == 1000
NUM_LEDS == 5
auth_password == "IoTDevice2024"

(***************************************************************************)
(* Bounds of the model                                                     *)
(***************************************************************************)
\* connections the peers open in one behaviour
MaxConns == 2
\* connections the peers open in one behaviour of SpecFull
FullConns == 6
\* clock advances in one behaviour
MaxTicks == 1
\* lines the peers send in one behaviour
MaxLines == 2
\* in SpecWrap: the time left, in ms, until millis() rolls over
WrapLead == 500
\* calls of ESP32Client::connectToHost in one behaviour
MaxCliConnects == 2
\* lines the peer of ESP32Client sends in one behaviour
MaxCliLines == 2

Slots == 0 .. (MAX_CLIENTS - 1)
LedIdx == 0 .. (NUM_LEDS - 1)

\* The clock advances by one of these amounts: both sides of the
\* broadcast period and of the heartbeat timeout.
TickSteps == {UPDATE_INTERVAL, UPDATE_INTERVAL + 1,
              HEARTBEAT_TIMEOUT, HEARTBEAT_TIMEOUT + 1}

(***************************************************************************)
(* Lines a peer can send.  A line is blank (nothing left after trim), not  *)
(* JSON, or a JSON object; a field of the object is absent (<<>>) or       *)
(* present (<<v>>).                                                        *)
(***************************************************************************)
Doc(c, p, l, s) ==
    [command |-> c, password |-> p, led |-> l, state |-> s, angle |-> <<>>]

\* the set_servo line of the API notes in main.cpp
SetServoLine(a) ==
    [kind |-> "json",
     doc |-> [Doc(<<"set_servo">>, <<>>, <<>>, <<>>) EXCEPT !.angle = a]]

JsonLine(d) == [kind |-> "json", doc |-> d]
BlankLine == [kind |-> "blank", doc |-> Doc(<<>>, <<>>, <<>>, <<>>)]
GarbageLine == [kind |-> "garbage", doc |-> Doc(<<>>, <<>>, <<>>, <<>>)]

AuthLines ==
    { JsonLine(Doc(<<"auth">>, p, <<>>, <<>>)) :
        p \in {<<auth_password>>, <<"wrong">>, <<>>} }

SetLedLines ==
    { JsonLine(Doc(<<"set_led">>, <<>>, l, s)) :
        l \in {<<>>, <<1>>, <<5>>, <<6>>},
        s \in {<<TRUE>>, <<FALSE>>} }

OtherLines ==
    { JsonLine(Doc(c, <<>>, <<>>, s)) :
        c \in {<<"set_all_leds">>}, s \in {<<TRUE>>} }
    \cup
    { JsonLine(Doc(c, <<>>, <<>>, <<>>)) :
        c \in {<<"get_status">>, <<"ping">>, <<>>} }
    \cup
    { SetServoLine(<<90>>) }

Lines == {BlankLine, GarbageLine} \cup AuthLines \cup SetLedLines \cup OtherLines

\* ArduinoJson conversions of a member that may be absent
AsString(f) == IF f = <<>> THEN "null" ELSE f[1]
AsInt(f) == IF f = <<>> THEN 0 ELSE f[1]
AsBool(f) == IF f = <<>> THEN FALSE ELSE f[1]

(***************************************************************************)
(* millis() and the times kept from it are unsigned long, 32 bits wide: a  *)
(* time is held as two 16-bit halves, hi * 2^16 + lo, and sums and         *)
(* differences are taken modulo 2^32.                                      *)
(***************************************************************************)
HalfWord == 2^16

\* the unsigned long of value n, for n below 2^31
U32(n) == [hi |-> n \div HalfWord, lo |-> n % HalfWord]

\* a + n modulo 2^32, for n below 2^31
U32Add(a, n) ==
    LET lo == a.lo + (n % HalfWord)
        hi == a.hi + (n \div HalfWord) + (lo \div HalfWord) IN
    [hi |-> hi % HalfWord, lo |-> lo % HalfWord]

\* a - b modulo 2^32
U32Sub(a, b) ==
    LET lo == a.lo - b.lo
        hi == a.hi - b.hi - (IF lo < 0 THEN 1 ELSE 0) IN
    [hi |-> hi % HalfWord, lo |-> lo % HalfWord]

\* a < b, unsigned
U32Less(a, b) == a.hi < b.hi \/ (a.hi = b.hi /\ a.lo < b.lo)

(***************************************************************************)
(* State                                                                   *)
(***************************************************************************)
VARIABLES
    pc,             \* position of the control loop inside update()
    now,            \* millis()
    lastUpdate,     \* CommunicationModule::lastUpdate
    clients,        \* CommunicationModule::clients[MAX_CLIENTS]
    activeClients,  \* CommunicationModule::activeClients
    net,            \* per slot: the socket behind clients[i].client
    backlog,        \* connections waiting in the listening socket
    conns,          \* connections opened so far (the latest connection id)
    nlines,         \* lines sent by peers so far
    leds,           \* level of the five LED pins
    currentServoAngle,  \* HardwareModule::currentServoAngle
    ticks,          \* clock advances so far
    step,           \* the latest step taken
    pre,            \* the state the latest server step started from
    sent,           \* per slot: lines written to it by the latest server step
    refused,        \* what the latest accept wrote to a connection it refused
    stamp           \* per slot: the timestamp of the latest line written to
                    \* the session it holds, <<>> when none

commVars == <<pc, now, lastUpdate, clients, activeClients, net, backlog,
              conns, nlines, leds, currentServoAngle, ticks, step, pre, sent,
              refused, stamp>>

\* servo_server
VARIABLES
    client,               \* the socket of the global WiFiClient client
    clientAuthenticated,  \* bool clientAuthenticated
    myServos,             \* the angle last written to each servo
    srvBacklog,           \* connections waiting in the listening socket
    srvConns,             \* connections opened so far
    srvLines,             \* lines sent by peers so far
    srvCrashed,           \* the sketch has faulted
    srvStep,              \* the latest step taken
    srvPre,               \* the state the latest loop() pass started from
    srvOut                \* what the latest loop() pass wrote, and whether it
                          \* called client.stop()

srvVars == <<client, clientAuthenticated, myServos, srvBacklog, srvConns,
             srvLines, srvCrashed, srvStep, srvPre, srvOut>>

\* ESP32Client (Qt)
VARIABLES
    socketState,    \* socket->state()
    authenticated,  \* ESP32Client::authenticated
    messageBuffer,  \* ESP32Client::messageBuffer
    authTimers,     \* single-shot authenticate timers that have not fired yet
    wire,           \* bytes the peer has sent that the socket has not read yet
    cliConnects,    \* calls of connectToHost so far
    cliLines,       \* lines the peer has sent so far
    cliStep,        \* the latest step taken
    cliPre,         \* the state the latest step started from
    cliOut,         \* what the latest step wrote to the socket
    cliSignals,     \* the signals the latest step emitted, in order
    cliAuthSent     \* auth commands written since the socket last connected

cliVars == <<socketState, authenticated, messageBuffer, authTimers, wire,
             cliConnects, cliLines, cliStep, cliPre, cliOut, cliSignals,
             cliAuthSent>>

\* ESP32Client::onDataReceived, byte by byte
VARIABLES
    frSent,     \* the bytes the peer has sent, in order
    frWire,     \* those of them that the socket has not read yet
    frBuffer,   \* ESP32Client::messageBuffer, character by character
    frPassed,   \* the objects passed to processMessage so far, in order
    frSplit     \* a read has ended inside a multi-byte character

frVars == <<frSent, frWire, frBuffer, frPassed, frSplit>>

\* HardwareModule
VARIABLES
    buttonDown,         \* per button: the button is held down (the pin reads LOW)
    potLevel,           \* analogRead(POTENTIOMETER_PIN)
    buttonStates,       \* HardwareModule::buttonStates
    lastButtonStates,   \* HardwareModule::lastButtonStates
    lastDebounceTime,   \* HardwareModule::lastDebounceTime
    buttonPressed,      \* HardwareModule::buttonPressed
    analogReadings,     \* HardwareModule::analogReadings
    analogIndex,        \* HardwareModule::analogIndex
    analogTotal,        \* HardwareModule::analogTotal
    lastPotServoAngle,  \* HardwareModule::lastPotServoAngle
    lastServoUpdate,    \* HardwareModule::lastServoUpdate
    hwToggles,          \* changes of a button so far
    hwTicks,            \* clock advances so far
    hwTurns,            \* changes of the potentiometer so far
    hwUpdates,          \* calls of update() so far
    hwStep,             \* the latest step taken
    hwArg,              \* the argument of the latest isButtonPressed call
    hwResult,           \* what the latest isButtonPressed call returned
    hwPre,              \* the flags the latest step started from
    edgeSince,          \* per button: update() has seen buttonStates go from
                        \* false to true since the latest isButtonPressed
                        \* call for that button
    readRun             \* per button: the reading the latest update() calls
                        \* took and the time of the first of them, <<>>
                        \* before the first call

hwVars == <<buttonDown, potLevel, buttonStates, lastButtonStates,
            lastDebounceTime, buttonPressed, analogReadings, analogIndex,
            analogTotal, lastPotServoAngle, lastServoUpdate, hwToggles,
            hwTicks, hwTurns, hwUpdates, hwStep, hwArg, hwResult, hwPre,
            edgeSince, readRun>>

\* the variables of CommunicationModule other than millis() and the servo angle
commOther == <<pc, lastUpdate, clients, activeClients, net, backlog, conns,
               nlines, leds, ticks, step, pre, sent, refused, stamp>>

\* Backend (Qt client)
VARIABLES
    m_espClient,    \* Backend::m_espClient is not null
    m_isConnected,  \* Backend::m_isConnected
    m_status,       \* the value last set on Backend::m_status, <<>> when none
    beCrashed,      \* the application has faulted
    beStep,         \* the latest step taken
    bePre,          \* the state the latest step started from
    beDeleted,      \* calls of deleteLater on a client made by the latest step
    beNullCalls     \* calls made through m_espClient while it was null, by
                    \* the latest step

beVars == <<m_espClient, m_isConnected, m_status, beCrashed, beStep, bePre,
            beDeleted, beNullCalls>>

vars == <<commVars, srvVars, cliVars, frVars, hwVars, beVars>>

NoConn == 0
NoClientId == <<>>
EmptyClient == [client |-> NoConn, authenticated |-> FALSE,
                lastHeartbeat |-> U32(0),
                clientId |-> NoClientId, active |-> FALSE]
ClosedSocket == [connected |-> FALSE, rx |-> <<>>]
NothingSent == [i \in Slots |-> <<>>]
NothingRefused == [conn |-> NoConn, lines |-> <<>>, stopped |-> FALSE]
NoStamp == [i \in Slots |-> <<>>]

\* The part of the state the handlers of CommunicationModule work on.
Cur == [clients |-> clients, activeClients |-> activeClients, net |-> net,
        leds |-> leds, servo |-> currentServoAngle,
        sent |-> NothingSent, refused |-> NothingRefused]

\* What a server step starts from; newClient is what server.available()
\* is about to return.
Snapshot == [clients |-> clients, activeClients |-> activeClients, net |-> net,
             leds |-> leds, newClient |-> NoConn, stamp |-> stamp]

NoPre == [clients |-> [i \in Slots |-> EmptyClient], activeClients |-> 0,
          net |-> [i \in Slots |-> ClosedSocket],
          leds |-> [k \in LedIdx |-> FALSE], newClient |-> NoConn,
          stamp |-> NoStamp]

\* The module as constructed, at the time start.
InitCommAt(start) ==
    /\ pc = "accept"
    /\ now = start
    /\ lastUpdate = start
    /\ clients = [i \in Slots |-> EmptyClient]
    /\ activeClients = 0
    /\ net = [i \in Slots |-> ClosedSocket]
    /\ backlog = 0
    /\ conns = 0
    /\ nlines = 0
    /\ leds = [k \in LedIdx |-> FALSE]
    /\ currentServoAngle = 90
    /\ ticks = 0
    /\ step = "init"
    /\ pre = NoPre
    /\ sent = NothingSent
    /\ refused = NothingRefused
    /\ stamp = NoStamp

InitComm == InitCommAt(U32(0))

(***************************************************************************)
(* CommunicationModule: helpers                                            *)
(***************************************************************************)
\* millis() - since
Elapsed(since) == U32Sub(now, since)

ClientIdOf(slot) == <<"Client_", slot + 1>>

createResponseJson(status, message) ==
    [status |-> status, message |-> message, timestamp |-> now]

createStatusJson(st) ==
    [type |-> "status", timestamp |-> now,
     leds |-> [k \in 1 .. NUM_LEDS |-> [id |-> k, state |-> st.leds[k - 1]]]]

ServerFullLine == [status |-> "error", message |-> "Server full"]

AuthChallengeText ==
    "Send authentication: {\"command\":\"auth\",\"password\":\"your_password\"}"

\* the mutant of sendResponse: the response goes to the first slot
sendResponseFirst(st, clientIndex, response) ==
    IF st.clients[clientIndex].active /\ st.net[clientIndex].connected
    THEN [st EXCEPT !.sent[0] = Append(@, response)]
    ELSE st

sendResponse(st, clientIndex, response) ==
    IF st.clients[clientIndex].active /\ st.net[clientIndex].connected
    THEN [st EXCEPT !.sent[clientIndex] = Append(@, response)]
    ELSE st

sendAuthChallenge(st, clientIndex) ==
    sendResponse(st, clientIndex,
                 createResponseJson("auth_required", AuthChallengeText))

\* the mutant of authenticateClient: a missing password passes
authenticateClientLax(clientIndex, password) ==
    password = auth_password \/ password = "null"

authenticateClient(clientIndex, password) == password = auth_password

\* the mutant of findFreeClientSlot: a full table yields slot 0
findFreeClientSlotWrap(cl) ==
    IF \E i \in Slots : ~cl[i].active
    THEN CHOOSE i \in Slots :
            /\ ~cl[i].active
            /\ \A j \in Slots : j < i => cl[j].active
    ELSE 0

\* the mutant of findFreeClientSlot: the scan runs from the last slot down
findFreeClientSlotLast(cl) ==
    IF \E i \in Slots : ~cl[i].active
    THEN CHOOSE i \in Slots :
            /\ ~cl[i].active
            /\ \A j \in Slots : j > i => cl[j].active
    ELSE -1

findFreeClientSlot(cl) ==
    IF \E i \in Slots : ~cl[i].active
    THEN CHOOSE i \in Slots :
            /\ ~cl[i].active
            /\ \A j \in Slots : j < i => cl[j].active
    ELSE -1

\* the mutant of closeClient: activeClients is not decremented
closeClientKeepsCount(st, clientIndex) ==
    IF st.clients[clientIndex].active
    THEN [st EXCEPT !.net[clientIndex] = ClosedSocket,
                    !.clients[clientIndex].client = NoConn,
                    !.clients[clientIndex].active = FALSE,
                    !.clients[clientIndex].authenticated = FALSE,
                    !.clients[clientIndex].clientId = NoClientId]
    ELSE st

\* the mutant of closeClient: the active flag is not tested
closeClientUnguarded(st, clientIndex) ==
    [st EXCEPT !.net[clientIndex] = ClosedSocket,
               !.clients[clientIndex].client = NoConn,
               !.clients[clientIndex].active = FALSE,
               !.clients[clientIndex].authenticated = FALSE,
               !.clients[clientIndex].clientId = NoClientId,
               !.activeClients = @ - 1]

closeClient(st, clientIndex) ==
    IF st.clients[clientIndex].active
    THEN [st EXCEPT !.net[clientIndex] = ClosedSocket,
                    !.clients[clientIndex].client = NoConn,
                    !.clients[clientIndex].active = FALSE,
                    !.clients[clientIndex].authenticated = FALSE,
                    !.clients[clientIndex].clientId = NoClientId,
                    !.activeClients = @ - 1]
    ELSE st

\* HardwareModule::setLED
setLED(l, ledNumber, state) ==
    IF ledNumber >= 0 /\ ledNumber < NUM_LEDS
    THEN [l EXCEPT ![ledNumber] = state]
    ELSE l

\* HardwareModule::setAllLEDs
setAllLEDs(l, state) == [k \in LedIdx |-> setLED(l, k, state)[k]]

\* the mutant of ValidLedNumber: the upper limit is off by one
ValidLedNumberWide(ledNum) == ledNum >= 1 /\ ledNum <= 6

ValidLedNumber(ledNum) == ledNum >= 1 /\ ledNum <= 5

OnOff(state) == IF state THEN "ON" ELSE "OFF"

(***************************************************************************)
(* CommunicationModule::processClientMessage                               *)
(***************************************************************************)
\* the mutant of ParseFails: the error of deserializeJson is ignored
ParseFailsIgnored(message) == FALSE

\* deserializeJson reports an error
ParseFails(message) == message.kind # "json"

\* the mutant of authenticatedCommand: an authenticated session can send
\* auth again
authenticatedCommandReauth(st, clientIndex, doc) ==
    LET command == AsString(doc.command) IN
    IF command = "auth"
    THEN IF authenticateClient(clientIndex, AsString(doc.password))
         THEN sendResponse(st, clientIndex,
                  createResponseJson("success", "Authenticated"))
         ELSE sendResponse(
                  [st EXCEPT !.clients[clientIndex].authenticated = FALSE],
                  clientIndex, createResponseJson("error", "Invalid password"))
    ELSE sendResponse(st, clientIndex, createResponseJson("error", "Unknown command"))

\* the commands of an authenticated session
authenticatedCommand(st, clientIndex, doc) ==
    LET command == AsString(doc.command) IN
    IF command = "set_led"
    THEN LET ledNum == AsInt(doc.led)
             state == AsBool(doc.state) IN
         IF ValidLedNumber(ledNum)
         THEN sendResponse(
                  [st EXCEPT !.leds = setLED(@, ledNum - 1, state)],
                  clientIndex,
                  createResponseJson("success",
                      "LED " \o ToString(ledNum) \o " set to " \o OnOff(state)))
         ELSE sendResponse(st, clientIndex,
                  createResponseJson("error", "Invalid LED number (1-5)"))
    ELSE IF command = "set_all_leds"
    THEN LET state == AsBool(doc.state) IN
         sendResponse([st EXCEPT !.leds = setAllLEDs(@, state)], clientIndex,
             createResponseJson("success", "All LEDs set to " \o OnOff(state)))
    ELSE IF command = "get_status"
    THEN sendResponse(st, clientIndex, createStatusJson(st))
    ELSE IF command = "ping"
    THEN sendResponse(st, clientIndex, createResponseJson("success", "pong"))
    ELSE sendResponse(st, clientIndex, createResponseJson("error", "Unknown command"))

\* the mutant of authCommand: a failed attempt closes the session
authCommandClosing(st, clientIndex, doc) ==
    LET pwd == AsString(doc.password) IN
    IF authenticateClient(clientIndex, pwd)
    THEN sendResponse([st EXCEPT !.clients[clientIndex].authenticated = TRUE],
             clientIndex, createResponseJson("success", "Authenticated"))
    ELSE closeClient(
             sendResponse(st, clientIndex,
                 createResponseJson("error", "Invalid password")),
             clientIndex)

\* the auth command of an unauthenticated session
authCommand(st, clientIndex, doc) ==
    LET pwd == AsString(doc.password) IN
    IF authenticateClient(clientIndex, pwd)
    THEN sendResponse([st EXCEPT !.clients[clientIndex].authenticated = TRUE],
             clientIndex, createResponseJson("success", "Authenticated"))
    ELSE sendResponse(st, clientIndex,
             createResponseJson("error", "Invalid password"))

\* the mutant of unauthenticatedCommand: the gate lets other commands through
unauthenticatedCommandOpen(st, clientIndex, doc) ==
    IF AsString(doc.command) = "auth"
    THEN authCommand(st, clientIndex, doc)
    ELSE authenticatedCommand(st, clientIndex, doc)

\* the commands of an unauthenticated session
unauthenticatedCommand(st, clientIndex, doc) ==
    IF AsString(doc.command) = "auth"
    THEN authCommand(st, clientIndex, doc)
    ELSE sendResponse(st, clientIndex,
             createResponseJson("error", "Authentication required"))

processClientMessage(st, clientIndex, message) ==
    IF ParseFails(message)
    THEN sendResponse(st, clientIndex, createResponseJson("error", "Invalid JSON"))
    ELSE IF ~st.clients[clientIndex].authenticated
    THEN unauthenticatedCommand(st, clientIndex, message.doc)
    ELSE authenticatedCommand(st, clientIndex, message.doc)

(***************************************************************************)
(* CommunicationModule::handleClientMessages: one pass over the slots, in  *)
(* index order, reading at most one line from each.                        *)
(***************************************************************************)
\* the mutant of readClient: a line read renews the lastHeartbeat of every
\* active session
readClientRenewsAll(st, i) ==
    IF st.clients[i].active /\ st.net[i].connected /\ st.net[i].rx # <<>>
    THEN LET message == Head(st.net[i].rx)
                 st1 == [st EXCEPT !.net[i].rx = Tail(@)] IN
         IF message.kind # "blank"
         THEN processClientMessage(
                  [st1 EXCEPT !.clients = [j \in Slots |->
                      IF st.clients[j].active
                      THEN [st.clients[j] EXCEPT !.lastHeartbeat = now]
                      ELSE st.clients[j]]],
                  i, message)
         ELSE st1
    ELSE st

\* the mutant of readClient: a blank line renews lastHeartbeat too
readClientCountsBlank(st, i) ==
    IF st.clients[i].active /\ st.net[i].connected /\ st.net[i].rx # <<>>
    THEN LET message == Head(st.net[i].rx)
                 st1 == [st EXCEPT !.net[i].rx = Tail(@),
                                   !.clients[i].lastHeartbeat = now] IN
         IF message.kind # "blank"
         THEN processClientMessage(st1, i, message)
         ELSE st1
    ELSE st

readClient(st, i) ==
    IF st.clients[i].active /\ st.net[i].connected /\ st.net[i].rx # <<>>
    THEN LET message == Head(st.net[i].rx)
                 st1 == [st EXCEPT !.net[i].rx = Tail(@)] IN
         IF message.kind # "blank"
         THEN processClientMessage(
                  [st1 EXCEPT !.clients[i].lastHeartbeat = now], i, message)
         ELSE st1
    ELSE st

RECURSIVE handleClientMessagesFrom(_, _)
handleClientMessagesFrom(st, i) ==
    IF i >= MAX_CLIENTS THEN st
    ELSE handleClientMessagesFrom(readClient(st, i), i + 1)

\* the mutant of handleClientMessages: the pass over the slots is made twice
handleClientMessagesTwice(st) ==
    handleClientMessagesFrom(handleClientMessagesFrom(st, 0), 0)

handleClientMessages(st) == handleClientMessagesFrom(st, 0)

(***************************************************************************)
(* CommunicationModule::sendDataToClients                                  *)
(***************************************************************************)
\* the mutant of BroadcastTarget: the authenticated flag is not tested
BroadcastTargetAny(st, i) ==
    st.clients[i].active /\ st.net[i].connected

BroadcastTarget(st, i) ==
    st.clients[i].active /\ st.clients[i].authenticated /\ st.net[i].connected

sendDataToClients(st) ==
    LET statusJson == createStatusJson(st) IN
    [st EXCEPT !.sent = [i \in Slots |->
        IF BroadcastTarget(st, i) THEN Append(st.sent[i], statusJson)
        ELSE st.sent[i]]]

(***************************************************************************)
(* CommunicationModule::removeInactiveClients                              *)
(***************************************************************************)
\* the mutant of HeartbeatExpired: the idle time is taken from lastUpdate
HeartbeatExpiredSinceUpdate(lastHeartbeat) ==
    U32Less(U32(HEARTBEAT_TIMEOUT), U32Sub(lastUpdate, lastHeartbeat))

\* the mutant of HeartbeatExpired: a session idle for exactly the timeout
\* counts as expired
HeartbeatExpiredAtLimit(lastHeartbeat) ==
    ~U32Less(Elapsed(lastHeartbeat), U32(HEARTBEAT_TIMEOUT))

\* the mutant of HeartbeatExpired: no idle time is taken when millis() is
\* below lastHeartbeat
HeartbeatExpiredUnlessWrapped(lastHeartbeat) ==
    /\ ~U32Less(now, lastHeartbeat)
    /\ U32Less(U32(HEARTBEAT_TIMEOUT), Elapsed(lastHeartbeat))

HeartbeatExpired(lastHeartbeat) ==
    U32Less(U32(HEARTBEAT_TIMEOUT), Elapsed(lastHeartbeat))

\* the mutant of MustRemove: the state of the transport is not tested
MustRemoveIdle(st, i) ==
    st.clients[i].active /\ HeartbeatExpired(st.clients[i].lastHeartbeat)

\* the mutant of MustRemove: the idle time is not tested
MustRemoveClosed(st, i) == st.clients[i].active /\ ~st.net[i].connected

MustRemove(st, i) ==
    st.clients[i].active
    /\ (~st.net[i].connected \/ HeartbeatExpired(st.clients[i].lastHeartbeat))

RECURSIVE removeInactiveClientsFrom(_, _)
removeInactiveClientsFrom(st, i) ==
    IF i >= MAX_CLIENTS THEN st
    ELSE removeInactiveClientsFrom(
             IF MustRemove(st, i) THEN closeClient(st, i) ELSE st, i + 1)

removeInactiveClients(st) == removeInactiveClientsFrom(st, 0)

UpdateDue == U32Less(U32(UPDATE_INTERVAL), Elapsed(lastUpdate))

(***************************************************************************)
(* CommunicationModule::handleNewClients.  newClient is the connection     *)
(* server.available() returned, NoConn when none is waiting.               *)
(***************************************************************************)
\* the mutant of handleNewClients: a refused connection is counted too
handleNewClientsCountsRefused(st, newClient) ==
    IF newClient # NoConn
    THEN LET slot == findFreeClientSlot(st.clients) IN
         IF slot # -1
         THEN sendAuthChallenge(
                  [st EXCEPT !.net[slot] = [connected |-> TRUE, rx |-> <<>>],
                             !.clients[slot] =
                                 [client |-> newClient,
                                  active |-> TRUE,
                                  authenticated |-> FALSE,
                                  lastHeartbeat |-> now,
                                  clientId |-> ClientIdOf(slot)],
                             !.activeClients = @ + 1],
                  slot)
         ELSE [st EXCEPT !.refused = [conn |-> newClient,
                                      lines |-> <<ServerFullLine>>,
                                      stopped |-> TRUE],
                         !.activeClients = @ + 1]
    ELSE st

handleNewClients(st, newClient) ==
    IF newClient # NoConn
    THEN LET slot == findFreeClientSlot(st.clients) IN
         IF slot # -1
         THEN sendAuthChallenge(
                  [st EXCEPT !.net[slot] = [connected |-> TRUE, rx |-> <<>>],
                             !.clients[slot] =
                                 [client |-> newClient,
                                  active |-> TRUE,
                                  authenticated |-> FALSE,
                                  lastHeartbeat |-> now,
                                  clientId |-> ClientIdOf(slot)],
                             !.activeClients = @ + 1],
                  slot)
         ELSE [st EXCEPT !.refused = [conn |-> newClient,
                                      lines |-> <<ServerFullLine>>,
                                      stopped |-> TRUE]]
    ELSE st

\* WiFiServer::available: the oldest waiting connection
serverAvailable == IF backlog > 0 THEN conns - backlog + 1 ELSE NoConn

(***************************************************************************)
(* servo_server: one client at a time, NUM_SERVOS servos                   *)
(***************************************************************************)
NUM_SERVOS == 4
requiredPassword == "IoTDevice2024"
ServoIdx == 0 .. (NUM_SERVOS - 1)

SDoc(c, p, x, a) == [command |-> c, password |-> p, servo_index |-> x, angle |-> a]

ServoLines ==
    {BlankLine, GarbageLine}
    \cup { JsonLine(SDoc(<<"auth">>, p, <<>>, <<>>)) :
             p \in {<<requiredPassword>>, <<"wrong">>, <<>>} }
    \cup { JsonLine(SDoc(<<"set_servo">>, <<>>, x, a)) :
             x \in {<<>>, <<-1>>, <<3>>, <<4>>},
             a \in {<<>>, <<-1>>, <<180>>, <<181>>} }
    \cup { JsonLine(SDoc(c, <<>>, <<>>, <<>>)) : c \in {<<"ping">>, <<>>} }

NoOut == [lines |-> <<>>, stopped |-> FALSE]

SrvCur == [client |-> client, clientAuthenticated |-> clientAuthenticated,
           myServos |-> myServos, crashed |-> FALSE, out |-> NoOut]

InitServo ==
    /\ client = ClosedSocket
    /\ clientAuthenticated = FALSE
    /\ myServos = [k \in ServoIdx |-> 90]
    /\ srvBacklog = 0
    /\ srvConns = 0
    /\ srvLines = 0
    /\ srvCrashed = FALSE
    /\ srvStep = "init"
    /\ srvPre = [client |-> ClosedSocket, clientAuthenticated |-> FALSE,
                 myServos |-> [k \in ServoIdx |-> 90]]
    /\ srvOut = NoOut

println(st, text) == [st EXCEPT !.out.lines = Append(@, text)]

\* WiFiClient::stop
clientStop(st) == [st EXCEPT !.client = ClosedSocket, !.out.stopped = TRUE]

\* the mutant of ValidServoCommand: the upper limit of the angle is off by one
ValidServoCommandWide(servo_index, angle) ==
    servo_index >= 0 /\ servo_index < NUM_SERVOS /\ angle >= 0 /\ angle <= 181

ValidServoCommand(servo_index, angle) ==
    servo_index >= 0 /\ servo_index < NUM_SERVOS /\ angle >= 0 /\ angle <= 180

\* the mutant of srvAuth: a failed attempt leaves the connection open
srvAuthKeepOpen(st, doc) ==
    IF AsString(doc.password) = requiredPassword
    THEN println([st EXCEPT !.clientAuthenticated = TRUE],
                 [status |-> "success", message |-> "Authenticated"])
    ELSE println(st, [status |-> "error", message |-> "Authentication failed"])

\* loop(): the auth command
srvAuth(st, doc) ==
    IF AsString(doc.password) = requiredPassword
    THEN println([st EXCEPT !.clientAuthenticated = TRUE],
                 [status |-> "success", message |-> "Authenticated"])
    ELSE clientStop(
             println(st, [status |-> "error", message |-> "Authentication failed"]))

\* loop(): the set_servo command
srvSetServo(st, doc) ==
    IF st.clientAuthenticated
    THEN LET servo_index == AsInt(doc.servo_index)
             angle == AsInt(doc.angle) IN
         IF ValidServoCommand(servo_index, angle)
         THEN println([st EXCEPT !.myServos[servo_index] = angle],
                      [status |-> "success"])
         ELSE println(st, [status |-> "error",
                           message |-> "Invalid servo index or angle"])
    ELSE println(st, [status |-> "error", message |-> "Not authenticated"])

\* loop(): the line the client sent.  doc["command"] converted to
\* const char* is a null pointer when the member is absent, and strcmp on
\* it is undefined: the pass faults (faults = TRUE) or the comparisons
\* come out unequal.
srvLine(st, message, faults) ==
    IF ParseFails(message)
    THEN println(st, [status |-> "error", message |-> "Invalid JSON"])
    ELSE IF message.doc.command = <<>>
    THEN IF faults THEN [st EXCEPT !.crashed = TRUE] ELSE st
    ELSE IF message.doc.command[1] = "auth"
    THEN srvAuth(st, message.doc)
    ELSE IF message.doc.command[1] = "set_servo"
    THEN srvSetServo(st, message.doc)
    ELSE st

SrvCommit(name, st) ==
    /\ srvStep' = name
    /\ srvPre' = [client |-> client, clientAuthenticated |-> clientAuthenticated,
                  myServos |-> myServos]
    /\ client' = st.client
    /\ clientAuthenticated' = st.clientAuthenticated
    /\ myServos' = st.myServos
    /\ srvCrashed' = st.crashed
    /\ srvOut' = st.out
    /\ UNCHANGED <<commVars, cliVars, frVars, hwVars, beVars>>

\* loop() while no client is connected: take the next waiting connection
SrvAccept ==
    /\ ~srvCrashed
    /\ ~client.connected
    /\ srvBacklog > 0
    /\ SrvCommit("accept",
           [SrvCur EXCEPT !.client = [connected |-> TRUE, rx |-> <<>>],
                          !.clientAuthenticated = FALSE])
    /\ srvBacklog' = srvBacklog - 1
    /\ UNCHANGED <<srvConns, srvLines>>

\* loop() while a client is connected and a line is available
SrvReadLine ==
    /\ ~srvCrashed
    /\ client.connected
    /\ client.rx # <<>>
    /\ \E faults \in BOOLEAN :
        SrvCommit("line",
            srvLine([SrvCur EXCEPT !.client.rx = Tail(@)], Head(client.rx), faults))
    /\ UNCHANGED <<srvBacklog, srvConns, srvLines>>

SrvEnv(name) ==
    /\ srvStep' = name
    /\ srvOut' = NoOut
    /\ UNCHANGED <<commVars, cliVars, frVars, hwVars, beVars,
                   clientAuthenticated, myServos, srvCrashed, srvPre>>

SrvPeerConnect ==
    /\ SrvEnv("peerConnect")
    /\ srvConns < MaxConns
    /\ srvConns' = srvConns + 1
    /\ srvBacklog' = srvBacklog + 1
    /\ UNCHANGED <<client, srvLines>>

SrvPeerSend(line) ==
    /\ SrvEnv("peerSend")
    /\ srvLines < MaxLines
    /\ client.connected
    /\ client' = [client EXCEPT !.rx = Append(@, line)]
    /\ srvLines' = srvLines + 1
    /\ UNCHANGED <<srvBacklog, srvConns>>

SrvPeerClose ==
    /\ SrvEnv("peerClose")
    /\ client.connected
    /\ client' = ClosedSocket
    /\ UNCHANGED <<srvBacklog, srvConns, srvLines>>

NextServo ==
    \/ SrvAccept
    \/ SrvReadLine
    \/ SrvPeerConnect
    \/ \E line \in ServoLines : SrvPeerSend(line)
    \/ SrvPeerClose

(***************************************************************************)
(* ESP32Client (Qt client): one QTcpSocket, the authenticated flag and the *)
(* receive buffer.  The caller (connectToHost, disconnect, controlServo),  *)
(* the socket (connected, disconnected, error, readyRead), the timer and   *)
(* the peer are the environment.                                           *)
(***************************************************************************)
authPassword == "IoTDevice2024"

\* A line the peer sends: blank, not a JSON object, or a JSON object whose
\* members status and message are absent (<<>>) or strings.
CDoc(s, m) == [status |-> s, message |-> m]

BlankReply == [kind |-> "blank", doc |-> CDoc(<<>>, <<>>)]
GarbageReply == [kind |-> "garbage", doc |-> CDoc(<<>>, <<>>)]

ClientLines ==
    {BlankReply, GarbageReply}
    \cup { [kind |-> "json", doc |-> CDoc(s, m)] :
             s \in {<<"success">>}, m \in {<<"Authenticated">>} }
    \cup { [kind |-> "json", doc |-> CDoc(s, m)] :
             s \in {<<"error">>}, m \in {<<"Invalid password">>, <<>>} }
    \cup { [kind |-> "json", doc |-> CDoc(s, <<>>)] :
             s \in {<<"auth_required">>, <<>>} }

\* QJsonValue::toString of a member that may be absent
QStr(f) == IF f = <<>> THEN "" ELSE f[1]

\* The bytes of a line travel in two parts, the second ending in '\n'; a
\* read can return the first part without the second.  conn is the
\* connection they were sent on.
Bytes(line) ==
    <<[line |-> line, nl |-> FALSE, conn |-> cliConnects],
      [line |-> line, nl |-> TRUE, conn |-> cliConnects]>>

Angles == {0, 180}

NoSignals == <<>>
connectionStateChanged(connected) ==
    [name |-> "connectionStateChanged", arg |-> <<connected>>]
errorOccurred(error) == [name |-> "errorOccurred", arg |-> <<error>>]

CliCur == [socketState |-> socketState, authenticated |-> authenticated,
           messageBuffer |-> messageBuffer, authTimers |-> authTimers,
           wire |-> wire, out |-> <<>>, signals |-> NoSignals,
           crashed |-> FALSE, backend |-> FALSE]

CliSnapshot == [socketState |-> socketState, authenticated |-> authenticated,
                messageBuffer |-> messageBuffer, authTimers |-> authTimers,
                wire |-> wire]

InitClient ==
    /\ socketState = "Unconnected"
    /\ authenticated = FALSE
    /\ messageBuffer = <<>>
    /\ authTimers = 0
    /\ wire = <<>>
    /\ cliConnects = 0
    /\ cliLines = 0
    /\ cliStep = "init"
    /\ cliPre = [socketState |-> "Unconnected", authenticated |-> FALSE,
                 messageBuffer |-> <<>>, authTimers |-> 0, wire |-> <<>>]
    /\ cliOut = <<>>
    /\ cliSignals = NoSignals
    /\ cliAuthSent = 0

(***************************************************************************)
(* Backend: the slots it connects to the signals of its client             *)
(* (connectToDevice), and disconnectFromDevice.  The connections are       *)
(* direct: emit runs the slot before it returns.  A record st with         *)
(* st.backend = TRUE holds, next to the fields of the client, those of the *)
(* Backend that owns it:                                                   *)
(*    m_espClient, m_isConnected, m_status  the members                    *)
(*    deleted     calls of deleteLater on the client                       *)
(*    nullCalls   calls made through m_espClient while it was null         *)
(*    outcome     how a wait for the socket to close ends                  *)
(*    faults      whether a call through a null pointer faults             *)
(*    crashed     the application has faulted                              *)
(***************************************************************************)
RECURSIVE disconnect(_, _)

\* m_espClient->deleteLater().  Through a null pointer the call is
\* undefined: it faults, or it returns having done nothing.
deleteLater(st) ==
    IF st.m_espClient THEN [st EXCEPT !.deleted = @ + 1]
    ELSE [st EXCEPT !.nullCalls = @ + 1, !.crashed = st.faults]

disconnectFromDevice(st) ==
    IF st.m_espClient
    THEN LET st1 == deleteLater(disconnect(st, st.outcome)) IN
         IF st1.crashed THEN st1
         ELSE [st1 EXCEPT !.m_espClient = FALSE, !.m_isConnected = FALSE]
    ELSE [st EXCEPT !.m_isConnected = FALSE]

\* the slot of connectionStateChanged
onConnectionStateChanged(st, connected) ==
    LET st1 == [st EXCEPT !.m_isConnected = connected] IN
    IF ~connected THEN disconnectFromDevice(st1) ELSE st1

\* the slot of errorOccurred
onErrorOccurred(st, error) ==
    [st EXCEPT !.m_status = <<"Error: " \o error>>, !.m_isConnected = FALSE]

\* emit signal: the signal is recorded and the slot connected to it runs
emit(st, signal) ==
    LET st1 == [st EXCEPT !.signals = Append(@, signal)] IN
    IF ~st.backend \/ st.crashed THEN st1
    ELSE IF signal.name = "connectionStateChanged"
    THEN onConnectionStateChanged(st1, signal.arg[1])
    ELSE onErrorOccurred(st1, signal.arg[1])

\* ESP32Client::onSocketError
errorString(error) ==
    CASE error = "HostNotFoundError" ->
             "Host not found. Please check the IP address."
      [] error = "ConnectionRefusedError" ->
             "Connection refused. Make sure the ESP32 is running and accessible."
      [] error = "RemoteHostClosedError" -> "ESP32 closed the connection."
      [] error = "NetworkError" -> "Network error occurred."
      [] OTHER -> "socket->errorString()"

onSocketError(st, error) == emit(st, errorOccurred(errorString(error)))

onSocketConnected(st) == [st EXCEPT !.authTimers = @ + 1]

onSocketDisconnected(st) ==
    emit([st EXCEPT !.authenticated = FALSE], connectionStateChanged(FALSE))

\* QTcpSocket::disconnectFromHost on a connected socket.  With nothing left
\* to write (closes) the socket closes at once and emits disconnected();
\* otherwise it stays in ClosingState, where it reads no more, until the
\* pending bytes are written.
disconnectFromHost(st, closes) ==
    IF st.socketState \in {"Connected", "Closing"}
    THEN IF closes
         THEN onSocketDisconnected(
                  [st EXCEPT !.socketState = "Unconnected", !.wire = <<>>])
         ELSE [st EXCEPT !.socketState = "Closing"]
    ELSE st

\* disconnectFromHost followed by waitForDisconnected(3000), as
\* connectToHost and disconnect call them.  The wait ends with the socket
\* closed or times out; a socket that was still connecting has its
\* connection established and closed, or refused, or is still connecting.
CloseOutcomes == {"closed", "refused", "timeout"}

closeAndWait(st, outcome) ==
    IF st.socketState = "Unconnected" THEN st
    ELSE IF st.socketState = "Connecting"
    THEN CASE outcome = "closed" ->
                  onSocketDisconnected(
                      onSocketConnected([st EXCEPT !.socketState = "Unconnected"]))
           [] outcome = "refused" ->
                  onSocketError([st EXCEPT !.socketState = "Unconnected"],
                                "ConnectionRefusedError")
           [] OTHER -> st
    ELSE disconnectFromHost(st, outcome # "timeout")

\* QTcpSocket::connectToHost: refused with an error while the socket is not
\* unconnected
socketConnectToHost(st) ==
    IF st.socketState = "Unconnected"
    THEN [st EXCEPT !.socketState = "Connecting", !.wire = <<>>]
    ELSE onSocketError(st, "OperationError")

\* the mutant of connectToHost: the receive buffer is not cleared
connectToHostKeepsBuffer(st, outcome) ==
    socketConnectToHost(
        [closeAndWait(st, outcome) EXCEPT !.authenticated = FALSE])

connectToHost(st, outcome) ==
    socketConnectToHost(
        [closeAndWait(st, outcome) EXCEPT !.authenticated = FALSE,
                                          !.messageBuffer = <<>>])

disconnect(st, outcome) ==
    [closeAndWait(st, outcome) EXCEPT !.authenticated = FALSE]

\* the mutant of isConnected: the authenticated flag is not tested
isConnectedAnyone(st) == st.socketState = "Connected"

isConnected(st) == st.socketState = "Connected" /\ st.authenticated

sendMessage(st, message) ==
    IF st.socketState # "Connected" THEN st
    ELSE [st EXCEPT !.out = Append(@, message)]

controlServo(st, angle) ==
    IF ~isConnected(st) THEN st
    ELSE sendMessage(st, [command |-> "set_servo", angle |-> angle])

authenticate(st) ==
    IF st.socketState # "Connected" THEN st
    ELSE sendMessage(st, [command |-> "auth", password |-> authPassword])

\* the mutant of processMessage: every success response is announced
processMessageEverySuccess(st, message, closes) ==
    IF message.status # <<>>
    THEN LET status == QStr(message.status) IN
         IF status = "success"
         THEN emit([st EXCEPT !.authenticated = TRUE],
                   connectionStateChanged(TRUE))
         ELSE IF status = "error"
         THEN LET st1 == emit(st, errorOccurred(
                              "ESP32 Error: " \o QStr(message.message))) IN
              IF ~st1.authenticated THEN disconnectFromHost(st1, closes)
              ELSE st1
         ELSE st
    ELSE st

processMessage(st, message, closes) ==
    IF message.status # <<>>
    THEN LET status == QStr(message.status) IN
         IF status = "success" /\ ~st.authenticated
         THEN emit([st EXCEPT !.authenticated = TRUE],
                   connectionStateChanged(TRUE))
         ELSE IF status = "error"
         THEN LET st1 == emit(st, errorOccurred(
                              "ESP32 Error: " \o QStr(message.message))) IN
              IF ~st1.authenticated THEN disconnectFromHost(st1, closes)
              ELSE st1
         ELSE st
    ELSE st

\* messageBuffer.contains('\n') and messageBuffer.indexOf('\n')
containsNewline(buffer) == \E k \in 1 .. Len(buffer) : buffer[k].nl

newlinePos(buffer) ==
    CHOOSE k \in 1 .. Len(buffer) :
        buffer[k].nl /\ \A j \in 1 .. (k - 1) : ~buffer[j].nl

\* The text before the first newline: a line when it is the two parts of
\* one line, otherwise text that does not parse.
lineBefore(buffer, pos) ==
    IF pos = 2 /\ buffer[1].line = buffer[2].line THEN buffer[1].line
    ELSE GarbageReply

\* ESP32Client::onDataReceived: the while loop
RECURSIVE drainBuffer(_, _)
drainBuffer(st, closes) ==
    IF ~containsNewline(st.messageBuffer) THEN st
    ELSE LET pos == newlinePos(st.messageBuffer)
             line == lineBefore(st.messageBuffer, pos)
             st1 == [st EXCEPT !.messageBuffer = SubSeq(@, pos + 1, Len(@))] IN
         IF line.kind = "json"
         THEN drainBuffer(processMessage(st1, line.doc, closes), closes)
         ELSE drainBuffer(st1, closes)

\* ESP32Client::onDataReceived, n parts having arrived
onDataReceived(st, n, closes) ==
    drainBuffer([st EXCEPT !.messageBuffer = @ \o SubSeq(st.wire, 1, n),
                           !.wire = SubSeq(@, n + 1, Len(@))],
                closes)

\* The auth commands written on the connection the socket has: those of
\* earlier steps since connected() and those of this step.
authSent(name, st) ==
    IF name = "socketConnected" THEN 0
    ELSE cliAuthSent
         + Cardinality({k \in 1 .. Len(st.out) : st.out[k].command = "auth"})

CliCommit(name, st) ==
    /\ UNCHANGED <<commVars, srvVars, frVars, hwVars, beVars>>
    /\ cliStep' = name
    /\ cliPre' = CliSnapshot
    /\ socketState' = st.socketState
    /\ authenticated' = st.authenticated
    /\ messageBuffer' = st.messageBuffer
    /\ authTimers' = st.authTimers
    /\ wire' = st.wire
    /\ cliOut' = st.out
    /\ cliSignals' = st.signals
    /\ cliAuthSent' = authSent(name, st)

\* the caller
CliConnectToHost ==
    /\ cliConnects < MaxCliConnects
    /\ \E outcome \in CloseOutcomes :
        CliCommit("connectToHost", connectToHost(CliCur, outcome))
    /\ cliConnects' = cliConnects + 1
    /\ UNCHANGED cliLines

CliDisconnect ==
    /\ \E outcome \in CloseOutcomes :
        CliCommit("disconnect", disconnect(CliCur, outcome))
    /\ UNCHANGED <<cliConnects, cliLines>>

CliControlServo ==
    /\ \E angle \in Angles :
        CliCommit("controlServo", controlServo(CliCur, angle))
    /\ UNCHANGED <<cliConnects, cliLines>>

\* the socket
CliSocketConnected ==
    /\ socketState = "Connecting"
    /\ CliCommit("socketConnected",
           onSocketConnected([CliCur EXCEPT !.socketState = "Connected"]))
    /\ UNCHANGED <<cliConnects, cliLines>>

CliConnectFails ==
    /\ socketState = "Connecting"
    /\ CliCommit("connectFails",
           onSocketError([CliCur EXCEPT !.socketState = "Unconnected"],
                         "ConnectionRefusedError"))
    /\ UNCHANGED <<cliConnects, cliLines>>

CliReadyRead ==
    /\ socketState = "Connected"
    /\ wire # <<>>
    /\ \E n \in 1 .. Len(wire), closes \in BOOLEAN :
        CliCommit("dataReceived", onDataReceived(CliCur, n, closes))
    /\ UNCHANGED <<cliConnects, cliLines>>

\* the peer closes the connection, after the bytes it sent have been read
CliPeerCloses ==
    /\ socketState = "Connected"
    /\ wire = <<>>
    /\ CliCommit("peerCloses",
           onSocketDisconnected(
               onSocketError([CliCur EXCEPT !.socketState = "Unconnected"],
                             "RemoteHostClosedError")))
    /\ UNCHANGED <<cliConnects, cliLines>>

\* a closing socket has written its pending bytes
CliSocketClosed ==
    /\ socketState = "Closing"
    /\ CliCommit("socketClosed", disconnectFromHost(CliCur, TRUE))
    /\ UNCHANGED <<cliConnects, cliLines>>

\* QTimer::singleShot(500, ...) fires
CliAuthTimer ==
    /\ authTimers > 0
    /\ CliCommit("authenticate",
           authenticate([CliCur EXCEPT !.authTimers = @ - 1]))
    /\ UNCHANGED <<cliConnects, cliLines>>

\* the peer
CliPeerSends(line) ==
    /\ socketState = "Connected"
    /\ cliLines < MaxCliLines
    /\ CliCommit("peerSends", [CliCur EXCEPT !.wire = @ \o Bytes(line)])
    /\ cliLines' = cliLines + 1
    /\ UNCHANGED cliConnects

NextClient ==
    \/ CliConnectToHost
    \/ CliDisconnect
    \/ CliControlServo
    \/ CliSocketConnected
    \/ CliConnectFails
    \/ CliReadyRead
    \/ CliPeerCloses
    \/ CliSocketClosed
    \/ CliAuthTimer
    \/ \E line \in ClientLines : CliPeerSends(line)

(***************************************************************************)
(* Backend (Qt client): it creates an ESP32Client in connectToDevice and   *)
(* gives it up in disconnectFromDevice.  The user interface calls the two; *)
(* the socket, the timer and the peer act on the client the Backend holds. *)
(* The deferred deletion of a client handed to deleteLater, and what       *)
(* reaches that client before it, are not part of the model.               *)
(***************************************************************************)
BeCur(outcome, faults) ==
    [socketState |-> socketState, authenticated |-> authenticated,
     messageBuffer |-> messageBuffer, authTimers |-> authTimers,
     wire |-> wire, out |-> <<>>, signals |-> NoSignals,
     crashed |-> FALSE, backend |-> TRUE,
     m_espClient |-> m_espClient, m_isConnected |-> m_isConnected,
     m_status |-> m_status, deleted |-> 0, nullCalls |-> 0,
     outcome |-> outcome, faults |-> faults]

BeSnapshot == [m_espClient |-> m_espClient, m_isConnected |-> m_isConnected,
               socketState |-> socketState, authenticated |-> authenticated]

InitBackend ==
    /\ m_espClient = FALSE
    /\ m_isConnected = FALSE
    /\ m_status = <<>>
    /\ beCrashed = FALSE
    /\ beStep = "init"
    /\ bePre = [m_espClient |-> FALSE, m_isConnected |-> FALSE,
                socketState |-> "Unconnected", authenticated |-> FALSE]
    /\ beDeleted = 0
    /\ beNullCalls = 0

\* new ESP32Client(ip, port, "IoTDevice2024", this)
newESP32Client(st) ==
    [st EXCEPT !.m_espClient = TRUE, !.socketState = "Unconnected",
               !.authenticated = FALSE, !.messageBuffer = <<>>,
               !.authTimers = 0, !.wire = <<>>]

\* Backend::connectToDevice
connectToDevice(st) ==
    LET st1 == IF st.m_espClient THEN disconnectFromDevice(st) ELSE st IN
    IF st1.crashed THEN st1
    ELSE connectToHost(
             [newESP32Client(st1) EXCEPT !.m_status = <<"Connecting...">>],
             st.outcome)

BeCommit(name, st) ==
    /\ UNCHANGED <<commVars, srvVars, frVars, hwVars>>
    /\ beStep' = name
    /\ bePre' = BeSnapshot
    /\ m_espClient' = st.m_espClient
    /\ m_isConnected' = st.m_isConnected
    /\ m_status' = st.m_status
    /\ beCrashed' = st.crashed
    /\ beDeleted' = st.deleted
    /\ beNullCalls' = st.nullCalls
    /\ cliStep' = name
    /\ cliPre' = CliSnapshot
    /\ socketState' = st.socketState
    /\ authenticated' = st.authenticated
    /\ messageBuffer' = st.messageBuffer
    /\ authTimers' = st.authTimers
    /\ wire' = st.wire
    /\ cliOut' = st.out
    /\ cliSignals' = st.signals
    /\ cliAuthSent' = authSent(name, st)

\* the user interface
BeConnectToDevice ==
    /\ ~beCrashed
    /\ cliConnects < MaxCliConnects
    /\ \E outcome \in CloseOutcomes, faults \in BOOLEAN :
        BeCommit("connectToDevice", connectToDevice(BeCur(outcome, faults)))
    /\ cliConnects' = cliConnects + 1
    /\ UNCHANGED cliLines

BeDisconnectFromDevice ==
    /\ ~beCrashed
    /\ \E outcome \in CloseOutcomes, faults \in BOOLEAN :
        BeCommit("disconnectFromDevice",
                 disconnectFromDevice(BeCur(outcome, faults)))
    /\ UNCHANGED <<cliConnects, cliLines>>

\* The Backend holds a client, whose socket, timer and peer can act.
BeClientLives == m_espClient /\ ~beCrashed

BeEvent == BeCur("closed", FALSE)

BeSocketConnected ==
    /\ BeClientLives
    /\ socketState = "Connecting"
    /\ BeCommit("socketConnected",
           onSocketConnected([BeEvent EXCEPT !.socketState = "Connected"]))
    /\ UNCHANGED <<cliConnects, cliLines>>

BeConnectFails ==
    /\ BeClientLives
    /\ socketState = "Connecting"
    /\ BeCommit("connectFails",
           onSocketError([BeEvent EXCEPT !.socketState = "Unconnected"],
                         "ConnectionRefusedError"))
    /\ UNCHANGED <<cliConnects, cliLines>>

BeReadyRead ==
    /\ BeClientLives
    /\ socketState = "Connected"
    /\ wire # <<>>
    /\ \E n \in 1 .. Len(wire), closes \in BOOLEAN :
        BeCommit("dataReceived", onDataReceived(BeEvent, n, closes))
    /\ UNCHANGED <<cliConnects, cliLines>>

BePeerCloses ==
    /\ BeClientLives
    /\ socketState = "Connected"
    /\ wire = <<>>
    /\ BeCommit("peerCloses",
           onSocketDisconnected(
               onSocketError([BeEvent EXCEPT !.socketState = "Unconnected"],
                             "RemoteHostClosedError")))
    /\ UNCHANGED <<cliConnects, cliLines>>

BeSocketClosed ==
    /\ BeClientLives
    /\ socketState = "Closing"
    /\ BeCommit("socketClosed", disconnectFromHost(BeEvent, TRUE))
    /\ UNCHANGED <<cliConnects, cliLines>>

BeAuthTimer ==
    /\ BeClientLives
    /\ authTimers > 0
    /\ BeCommit("authenticate",
           authenticate([BeEvent EXCEPT !.authTimers = @ - 1]))
    /\ UNCHANGED <<cliConnects, cliLines>>

BePeerSends(line) ==
    /\ BeClientLives
    /\ socketState = "Connected"
    /\ cliLines < MaxCliLines
    /\ BeCommit("peerSends", [BeEvent EXCEPT !.wire = @ \o Bytes(line)])
    /\ cliLines' = cliLines + 1
    /\ UNCHANGED cliConnects

\* Backend::setRot1Angle: the slider's range [-90, 90] is mapped to the
\* servo's range [0, 180]
setRot1Angle(st, angle) ==
    IF st.m_espClient /\ isConnected(st) THEN controlServo(st, angle + 90)
    ELSE st

BeSetRot1Angle ==
    /\ ~beCrashed
    /\ \E angle \in {-90, 90} :
        BeCommit("setRot1Angle", setRot1Angle(BeEvent, angle))
    /\ UNCHANGED <<cliConnects, cliLines>>

NextBackend ==
    \/ BeConnectToDevice
    \/ BeDisconnectFromDevice
    \/ BeSetRot1Angle
    \/ BeSocketConnected
    \/ BeConnectFails
    \/ BeReadyRead
    \/ BePeerCloses
    \/ BeSocketClosed
    \/ BeAuthTimer
    \/ \E line \in ClientLines : BePeerSends(line)

(***************************************************************************)
(* ESP32Client::onDataReceived, byte by byte.  The peer's bytes are the    *)
(* braces of a JSON object, a space, the newline, and the two bytes C3 A9  *)
(* that encode the character U+00E9; what stands between the braces is the *)
(* text of the object's members.  A read returns any non-empty prefix of   *)
(* the bytes that have arrived.  The calls of processMessage are recorded  *)
(* in frPassed; what processMessage does is in the section above.          *)
(***************************************************************************)
\* bytes the peer sends in one behaviour of SpecFraming
MaxFrBytes == 5

FrBytes == {"{", "}", "sp", "nl", "C3", "A9"}

RECURSIVE FrStreams(_)
FrStreams(n) ==
    IF n = 0 THEN {<<>>}
    ELSE FrStreams(n - 1)
         \cup { Append(s, b) : s \in { t \in FrStreams(n - 1) : Len(t) = n - 1 },
                               b \in FrBytes }

\* QString::fromUtf8: the decoder keeps nothing from one call to the next,
\* and every byte that is not part of a complete sequence becomes U+FFFD.
RECURSIVE fromUtf8(_)
fromUtf8(data) ==
    IF data = <<>> THEN <<>>
    ELSE IF Head(data) = "C3"
    THEN IF Len(data) >= 2 /\ data[2] = "A9"
         THEN <<"U+00E9">> \o fromUtf8(SubSeq(data, 3, Len(data)))
         ELSE <<"U+FFFD">> \o fromUtf8(Tail(data))
    ELSE IF Head(data) = "A9"
    THEN <<"U+FFFD">> \o fromUtf8(Tail(data))
    ELSE <<Head(data)>> \o fromUtf8(Tail(data))

\* messageBuffer.contains('\n') and messageBuffer.indexOf('\n')
contains(buffer, ch) == \E k \in 1 .. Len(buffer) : buffer[k] = ch

indexOf(buffer, ch) ==
    CHOOSE k \in 1 .. Len(buffer) :
        buffer[k] = ch /\ \A j \in 1 .. (k - 1) : buffer[j] # ch

\* QString::trimmed
trimmed(s) ==
    IF \A k \in 1 .. Len(s) : s[k] = "sp" THEN <<>>
    ELSE LET first == CHOOSE k \in 1 .. Len(s) :
                          s[k] # "sp" /\ \A j \in 1 .. (k - 1) : s[j] = "sp"
             last == CHOOSE k \in 1 .. Len(s) :
                          s[k] # "sp" /\ \A j \in (k + 1) .. Len(s) : s[j] = "sp" IN
         SubSeq(s, first, last)

\* QJsonDocument::fromJson(line.toUtf8(), &error) gives no error and
\* doc.isObject()
isObject(line) ==
    /\ Len(line) >= 2
    /\ line[1] = "{"
    /\ line[Len(line)] = "}"
    /\ \A k \in 2 .. (Len(line) - 1) : line[k] \notin {"{", "}"}

\* doc.object()
object(line) == SubSeq(line, 2, Len(line) - 1)

\* ESP32Client::onDataReceived: the while loop
RECURSIVE takeLines(_)
takeLines(st) ==
    IF ~contains(st.buffer, "nl") THEN st
    ELSE LET pos == indexOf(st.buffer, "nl")
             line == trimmed(SubSeq(st.buffer, 1, pos - 1))
             st1 == [st EXCEPT !.buffer = SubSeq(@, pos + 1, Len(@))] IN
         IF line = <<>> THEN takeLines(st1)
         ELSE IF isObject(line)
         THEN takeLines([st1 EXCEPT !.passed = Append(@, object(line))])
         ELSE takeLines(st1)

\* ESP32Client::onDataReceived, readAll having returned data
receive(st, data) ==
    takeLines([st EXCEPT !.buffer = @ \o fromUtf8(data)])

NothingReceived == [buffer |-> <<>>, passed |-> <<>>]

InitFraming(stream) ==
    /\ frSent = stream
    /\ frWire = stream
    /\ frBuffer = <<>>
    /\ frPassed = <<>>
    /\ frSplit = FALSE

\* readyRead: the socket hands over the first n bytes that have arrived
FrReadyRead(n) ==
    /\ n \in 1 .. Len(frWire)
    /\ LET st == receive([buffer |-> frBuffer, passed |-> frPassed],
                         SubSeq(frWire, 1, n)) IN
        /\ frBuffer' = st.buffer
        /\ frPassed' = st.passed
    /\ frWire' = SubSeq(frWire, n + 1, Len(frWire))
    /\ frSplit' = (frSplit \/ (/\ n < Len(frWire)
                               /\ frWire[n] = "C3"
                               /\ frWire[n + 1] = "A9"))
    /\ UNCHANGED <<commVars, srvVars, cliVars, hwVars, beVars, frSent>>

NextFraming == \E n \in 1 .. MaxFrBytes : FrReadyRead(n)

(***************************************************************************)
(* HardwareModule (Esp-32_LED): five debounced buttons, the smoothed       *)
(* potentiometer and the servo that follows it.  update() and              *)
(* isButtonPressed are called by loop(); the buttons, the potentiometer    *)
(* and the clock are the environment.                                      *)
(***************************************************************************)
NUM_BUTTONS == 5
DEBOUNCE_DELAY == 50
ANALOG_SAMPLES == 20
SERVO_UPDATE_INTERVAL == 50
SERVO_DEADBAND == 2

\* changes of a button in one behaviour of SpecHardware
MaxToggles == 2
\* clock advances in one behaviour of SpecHardware
MaxHwTicks == 2
\* changes of the potentiometer in one behaviour of SpecHardware
MaxPotTurns == 1
\* calls of update() in one behaviour of SpecHardware
MaxHwUpdates == 4

ButtonIdx == 0 .. (NUM_BUTTONS - 1)
SampleIdx == 0 .. (ANALOG_SAMPLES - 1)

\* the buttons that are pushed: the first and the last
HwButtons == {0, NUM_BUTTONS - 1}

\* the arguments isButtonPressed is called with: those buttons and the
\* numbers next to them that are not buttons
ButtonArgs == {-1, NUM_BUTTONS} \cup HwButtons

\* the level of the potentiometer at start, and the levels it is turned to
PotStart == 2048
PotLevels == {0, 4095}

\* both sides of the debounce delay
HwTickSteps == {DEBOUNCE_DELAY, DEBOUNCE_DELAY + 1}

HwCur ==
    [buttonStates |-> buttonStates, lastButtonStates |-> lastButtonStates,
     lastDebounceTime |-> lastDebounceTime, buttonPressed |-> buttonPressed,
     analogReadings |-> analogReadings, analogIndex |-> analogIndex,
     analogTotal |-> analogTotal, currentServoAngle |-> currentServoAngle,
     lastPotServoAngle |-> lastPotServoAngle,
     lastServoUpdate |-> lastServoUpdate, result |-> FALSE]

HwSnapshot == [buttonStates |-> buttonStates, buttonPressed |-> buttonPressed,
               edgeSince |-> edgeSince]

HwNoPre == [buttonStates |-> [i \in ButtonIdx |-> FALSE],
            buttonPressed |-> [i \in ButtonIdx |-> FALSE],
            edgeSince |-> [i \in ButtonIdx |-> FALSE]]

\* The module after its constructor and init(), the potentiometer at
\* PotStart, and after index calls of update() in which no button and no
\* reading changed and no time passed.
InitHardwareAt(index) ==
    /\ buttonDown = [i \in ButtonIdx |-> FALSE]
    /\ potLevel = PotStart
    /\ buttonStates = [i \in ButtonIdx |-> FALSE]
    /\ lastButtonStates = [i \in ButtonIdx |-> FALSE]
    /\ lastDebounceTime = [i \in ButtonIdx |-> U32(0)]
    /\ buttonPressed = [i \in ButtonIdx |-> FALSE]
    /\ analogReadings = [k \in SampleIdx |-> PotStart]
    /\ analogIndex = index
    /\ analogTotal = ANALOG_SAMPLES * PotStart
    /\ lastPotServoAngle = 90
    /\ lastServoUpdate = U32(0)
    /\ hwToggles = 0
    /\ hwTicks = 0
    /\ hwTurns = 0
    /\ hwUpdates = 0
    /\ hwStep = "init"
    /\ hwArg = -1
    /\ hwResult = FALSE
    /\ hwPre = HwNoPre
    /\ edgeSince = [i \in ButtonIdx |-> FALSE]
    /\ readRun = [i \in ButtonIdx |->
                     IF index = 0 THEN <<>>
                     ELSE <<[reading |-> FALSE, since |-> U32(0)]>>]

InitHardware == InitHardwareAt(0)

\* the mutant of updateButton: the debounce time is not restarted when
\* the reading changes
updateButtonNoRestart(st, i, reading) ==
    LET st2 == IF /\ U32Less(U32(DEBOUNCE_DELAY), Elapsed(st.lastDebounceTime[i]))
                  /\ reading # st.buttonStates[i]
               THEN LET oldState == st.buttonStates[i] IN
                    [st EXCEPT !.buttonStates[i] = reading,
                               !.buttonPressed[i] =
                                   IF ~oldState /\ reading THEN TRUE ELSE @]
               ELSE st IN
    [st2 EXCEPT !.lastButtonStates[i] = reading]

\* update(): the body of the loop over the buttons, reading being
\* !digitalRead(BUTTON_PINS[i])
updateButton(st, i, reading) ==
    LET st1 == IF reading # st.lastButtonStates[i]
               THEN [st EXCEPT !.lastDebounceTime[i] = now]
               ELSE st
        st2 == IF /\ U32Less(U32(DEBOUNCE_DELAY), Elapsed(st1.lastDebounceTime[i]))
                  /\ reading # st1.buttonStates[i]
               THEN LET oldState == st1.buttonStates[i] IN
                    [st1 EXCEPT !.buttonStates[i] = reading,
                                !.buttonPressed[i] =
                                    IF ~oldState /\ reading THEN TRUE ELSE @]
               ELSE st1 IN
    [st2 EXCEPT !.lastButtonStates[i] = reading]

RECURSIVE updateButtonsFrom(_, _, _)
updateButtonsFrom(st, i, readings) ==
    IF i >= NUM_BUTTONS THEN st
    ELSE updateButtonsFrom(updateButton(st, i, readings[i]), i + 1, readings)

\* the mutant of updateAnalog: the reading that is replaced stays in the
\* total
updateAnalogKeepsOld(st, sample) ==
    [st EXCEPT !.analogTotal = @ + sample,
               !.analogReadings[st.analogIndex] = sample,
               !.analogIndex = (@ + 1) % ANALOG_SAMPLES]

\* update(): the smoothing of the analog reading
updateAnalog(st, sample) ==
    [st EXCEPT !.analogTotal = @ - st.analogReadings[st.analogIndex] + sample,
               !.analogReadings[st.analogIndex] = sample,
               !.analogIndex = (@ + 1) % ANALOG_SAMPLES]

getAnalogValue(st) == st.analogTotal \div ANALOG_SAMPLES

\* map(potValue, 0, 4095, 0, 180)
mapPotToServo(potValue) == (potValue * 180) \div 4095

servoAngleChanged(st, newAngle) ==
    LET d == newAngle - st.lastPotServoAngle IN
    (IF d < 0 THEN -d ELSE d) > SERVO_DEADBAND

constrain(x, low, high) == IF x < low THEN low ELSE IF x > high THEN high ELSE x

setServoAngle(st, angle) ==
    [st EXCEPT !.currentServoAngle = constrain(angle, 0, 180)]

updatePotentiometerServo(st) ==
    IF U32Less(Elapsed(st.lastServoUpdate), U32(SERVO_UPDATE_INTERVAL))
    THEN st
    ELSE LET newServoAngle == mapPotToServo(getAnalogValue(st)) IN
         IF servoAngleChanged(st, newServoAngle)
         THEN [setServoAngle(st, newServoAngle)
                 EXCEPT !.lastPotServoAngle = newServoAngle,
                        !.lastServoUpdate = now]
         ELSE st

\* HardwareModule::update
hardwareUpdate(st, readings, sample) ==
    updatePotentiometerServo(
        updateAnalog(updateButtonsFrom(st, 0, readings), sample))

\* the mutant of isButtonPressed: the flag is not reset
isButtonPressedKeepsFlag(st, buttonNumber) ==
    IF buttonNumber >= 0 /\ buttonNumber < NUM_BUTTONS
    THEN IF st.buttonPressed[buttonNumber]
         THEN [st EXCEPT !.result = TRUE]
         ELSE [st EXCEPT !.result = FALSE]
    ELSE [st EXCEPT !.result = FALSE]

isButtonPressed(st, buttonNumber) ==
    IF buttonNumber >= 0 /\ buttonNumber < NUM_BUTTONS
    THEN IF st.buttonPressed[buttonNumber]
         THEN [st EXCEPT !.buttonPressed[buttonNumber] = FALSE,
                         !.result = TRUE]
         ELSE [st EXCEPT !.result = FALSE]
    ELSE [st EXCEPT !.result = FALSE]

HwCommit(name, st) ==
    /\ hwStep' = name
    /\ buttonStates' = st.buttonStates
    /\ lastButtonStates' = st.lastButtonStates
    /\ lastDebounceTime' = st.lastDebounceTime
    /\ buttonPressed' = st.buttonPressed
    /\ analogReadings' = st.analogReadings
    /\ analogIndex' = st.analogIndex
    /\ analogTotal' = st.analogTotal
    /\ currentServoAngle' = st.currentServoAngle
    /\ lastPotServoAngle' = st.lastPotServoAngle
    /\ lastServoUpdate' = st.lastServoUpdate
    /\ hwResult' = st.result
    /\ UNCHANGED <<commOther, srvVars, cliVars, frVars, beVars>>

\* loop(): hardware.update()
HwUpdate ==
    /\ hwUpdates < MaxHwUpdates
    /\ hwUpdates' = hwUpdates + 1
    /\ HwCommit("update", hardwareUpdate(HwCur, buttonDown, potLevel))
    /\ hwPre' = HwSnapshot
    /\ hwArg' = -1
    /\ edgeSince' = [i \in ButtonIdx |->
                        edgeSince[i] \/ (~buttonStates[i] /\ buttonStates'[i])]
    /\ readRun' = [i \in ButtonIdx |->
                      IF readRun[i] # <<>> /\ readRun[i][1].reading = buttonDown[i]
                      THEN readRun[i]
                      ELSE <<[reading |-> buttonDown[i], since |-> now]>>]
    /\ UNCHANGED <<now, buttonDown, potLevel, hwToggles, hwTicks, hwTurns>>

\* a call of isButtonPressed
HwIsButtonPressed(buttonNumber) ==
    /\ HwCommit("isButtonPressed", isButtonPressed(HwCur, buttonNumber))
    /\ hwPre' = HwSnapshot
    /\ hwArg' = buttonNumber
    /\ edgeSince' = [i \in ButtonIdx |-> edgeSince[i] /\ i # buttonNumber]
    /\ UNCHANGED readRun
    /\ UNCHANGED <<now, buttonDown, potLevel, hwToggles, hwTicks, hwTurns,
                   hwUpdates>>

HwEnv(name) ==
    /\ HwCommit(name, HwCur)
    /\ hwPre' = HwNoPre
    /\ hwArg' = -1
    /\ UNCHANGED <<edgeSince, readRun>>

\* a button is pushed down or let go
HwToggle(i) ==
    /\ HwEnv("toggle")
    /\ hwToggles < MaxToggles
    /\ buttonDown' = [buttonDown EXCEPT ![i] = ~@]
    /\ hwToggles' = hwToggles + 1
    /\ UNCHANGED <<now, potLevel, hwTicks, hwTurns, hwUpdates>>

HwTurnPot(level) ==
    /\ HwEnv("turnPot")
    /\ hwTurns < MaxPotTurns
    /\ potLevel' = level
    /\ hwTurns' = hwTurns + 1
    /\ UNCHANGED <<now, buttonDown, hwToggles, hwTicks, hwUpdates>>

HwTick(d) ==
    /\ HwEnv("tick")
    /\ hwTicks < MaxHwTicks
    /\ now' = U32Add(now, d)
    /\ hwTicks' = hwTicks + 1
    /\ UNCHANGED <<buttonDown, potLevel, hwToggles, hwTurns, hwUpdates>>

NextHardware ==
    \/ HwUpdate
    \/ \E buttonNumber \in ButtonArgs : HwIsButtonPressed(buttonNumber)
    \/ \E i \in HwButtons : HwToggle(i)
    \/ \E level \in PotLevels : HwTurnPot(level)
    \/ \E d \in HwTickSteps : HwTick(d)

(***************************************************************************)
(* Steps of the control loop (CommunicationModule::update)                 *)
(***************************************************************************)
\* The timestamps last written, after a server step that ends in st.
Stamped(st) ==
    [i \in Slots |->
        IF st.sent[i] # <<>> THEN <<st.sent[i][Len(st.sent[i])].timestamp>>
        ELSE IF ~st.clients[i].active THEN <<>>
        ELSE stamp[i]]

Commit(name, st) ==
    /\ UNCHANGED <<srvVars, cliVars, frVars, hwVars, beVars>>
    /\ stamp' = Stamped(st)
    /\ step' = name
    /\ pre' = Snapshot
    /\ clients' = st.clients
    /\ activeClients' = st.activeClients
    /\ net' = st.net
    /\ leds' = st.leds
    /\ currentServoAngle' = st.servo
    /\ sent' = st.sent
    /\ refused' = st.refused

HandleNewClients ==
    /\ pc = "accept"
    /\ UNCHANGED <<srvVars, cliVars, frVars, hwVars, beVars>>
    /\ step' = "handleNewClients"
    /\ pre' = [Snapshot EXCEPT !.newClient = serverAvailable]
    /\ LET st == handleNewClients(Cur, serverAvailable) IN
        /\ clients' = st.clients
        /\ activeClients' = st.activeClients
        /\ net' = st.net
        /\ leds' = st.leds
        /\ currentServoAngle' = st.servo
        /\ sent' = st.sent
        /\ refused' = st.refused
        /\ stamp' = Stamped(st)
    /\ backlog' = IF backlog > 0 THEN backlog - 1 ELSE backlog
    /\ pc' = "messages"
    /\ UNCHANGED <<now, ticks, lastUpdate, conns, nlines>>

HandleClientMessages ==
    /\ pc = "messages"
    /\ Commit("handleClientMessages", handleClientMessages(Cur))
    /\ pc' = "periodic"
    /\ UNCHANGED <<now, ticks, lastUpdate, backlog, conns, nlines>>

UpdateNotDue ==
    /\ pc = "periodic"
    /\ ~UpdateDue
    /\ Commit("updateNotDue", Cur)
    /\ pc' = "accept"
    /\ UNCHANGED <<now, ticks, lastUpdate, backlog, conns, nlines>>

SendDataToClients ==
    /\ pc = "periodic"
    /\ UpdateDue
    /\ Commit("sendDataToClients", sendDataToClients(Cur))
    /\ pc' = "reap"
    /\ UNCHANGED <<now, ticks, lastUpdate, backlog, conns, nlines>>

RemoveInactiveClients ==
    /\ pc = "reap"
    /\ Commit("removeInactiveClients", removeInactiveClients(Cur))
    /\ lastUpdate' = now
    /\ pc' = "accept"
    /\ UNCHANGED <<now, ticks, backlog, conns, nlines>>

(***************************************************************************)
(* The environment: peers and the clock                                    *)
(***************************************************************************)
\* The peers and the clock act between two calls of update().
BetweenUpdates == pc = "accept"

\* No line waits unread.  A line takes effect when update() reads it, so a
\* connect, a close or a clock advance after a send leads to the same
\* states as before it: they are taken only in quiet states.
Quiet == \A i \in Slots : net[i].rx = <<>>

Env(name) ==
    /\ BetweenUpdates
    /\ UNCHANGED <<srvVars, cliVars, frVars, hwVars, beVars>>
    /\ step' = name
    /\ pre' = NoPre
    /\ sent' = NothingSent
    /\ refused' = NothingRefused
    /\ UNCHANGED <<pc, lastUpdate, clients, activeClients, leds,
                   currentServoAngle, stamp>>

PeerConnectUpTo(limit) ==
    /\ Env("peerConnect") /\ Quiet
    /\ conns < limit
    /\ conns' = conns + 1
    /\ backlog' = backlog + 1
    /\ UNCHANGED <<now, ticks, net, nlines>>

PeerConnect == PeerConnectUpTo(MaxConns)

PeerSend(i, line) ==
    /\ Env("peerSend")
    /\ nlines < MaxLines
    /\ net[i].connected
    /\ net' = [net EXCEPT ![i].rx = Append(@, line)]
    /\ nlines' = nlines + 1
    /\ UNCHANGED <<now, ticks, backlog, conns>>

PeerClose(i) ==
    /\ Env("peerClose") /\ Quiet
    /\ net[i].connected
    /\ net' = [net EXCEPT ![i] = ClosedSocket]
    /\ UNCHANGED <<now, ticks, backlog, conns, nlines>>

Tick(d) ==
    /\ Env("tick") /\ Quiet
    /\ ticks < MaxTicks
    /\ now' = U32Add(now, d)
    /\ ticks' = ticks + 1
    /\ UNCHANGED <<net, backlog, conns, nlines>>

Server ==
    \/ HandleNewClients
    \/ HandleClientMessages
    \/ UpdateNotDue
    \/ SendDataToClients
    \/ RemoveInactiveClients

Next ==
    \/ Server
    \/ PeerConnect
    \/ \E i \in Slots, line \in Lines : PeerSend(i, line)
    \/ \E i \in Slots : PeerClose(i)
    \/ \E d \in TickSteps : Tick(d)

Init ==
    /\ InitComm /\ InitServo /\ InitClient /\ InitFraming(<<>>)
    /\ InitHardware /\ InitBackend

Spec == Init /\ [][Next]_vars

\* The same server with up to FullConns silent peers.
PeerConnectFull == PeerConnectUpTo(FullConns)

NextFull ==
    \/ Server
    \/ PeerConnectFull
    \/ \E i \in Slots : PeerClose(i)
    \/ \E d \in TickSteps : Tick(d)

SpecFull == Init /\ [][NextFull]_vars

\* The same server, started WrapLead ms before millis() rolls over.
InitWrap ==
    /\ InitCommAt(U32Sub(U32(0), U32(WrapLead)))
    /\ InitServo /\ InitClient /\ InitFraming(<<>>)
    /\ InitHardware /\ InitBackend

SpecWrap == InitWrap /\ [][Next]_vars

(***************************************************************************)
(* The same server, running for ever: the peers go on sending, one line at *)
(* a time, and the clock goes on advancing, by a quarter of its range      *)
(* between two periodic passes, so that millis() rolls over every fourth   *)
(* advance.  The control loop keeps running (weak fairness: one of its     *)
(* steps is always enabled) and time advances (strong fairness: the clock  *)
(* advances between two passes of the loop).                               *)
(***************************************************************************)
\* lines of a peer that may or may not authenticate
LiveLines ==
    {BlankLine, GarbageLine}
    \cup { JsonLine(Doc(<<"auth">>, p, <<>>, <<>>)) :
             p \in {<<auth_password>>, <<"wrong">>} }

LivePeerSend(i, line) ==
    /\ Env("peerSend")
    /\ net[i].connected
    /\ net[i].rx = <<>>
    /\ net' = [net EXCEPT ![i].rx = Append(@, line)]
    /\ UNCHANGED <<now, ticks, backlog, conns, nlines>>

LiveTick ==
    /\ Env("tick") /\ Quiet
    /\ lastUpdate = now
    /\ now' = U32Add(now, 2^30)
    /\ UNCHANGED <<ticks, net, backlog, conns, nlines>>

NextLive ==
    \/ Server
    \/ PeerConnect
    \/ \E i \in Slots, line \in LiveLines : LivePeerSend(i, line)
    \/ \E i \in Slots : PeerClose(i)
    \/ LiveTick

SpecLive ==
    /\ Init
    /\ [][NextLive]_vars
    /\ WF_vars(Server)
    /\ SF_vars(LiveTick)

\* servo_server
SpecServo == Init /\ [][NextServo]_vars

\* ESP32Client
SpecClient == Init /\ [][NextClient]_vars

\* ESP32Client::onDataReceived on every stream of up to MaxFrBytes bytes
InitFrames ==
    /\ InitComm /\ InitServo /\ InitClient /\ InitHardware /\ InitBackend
    /\ \E stream \in FrStreams(MaxFrBytes) : InitFraming(stream)

SpecFraming == InitFrames /\ [][NextFraming]_vars

\* HardwareModule
SpecHardware == Init /\ [][NextHardware]_vars

\* Backend and its ESP32Client
SpecBackend == Init /\ [][NextBackend]_vars

\* HardwareModule, started before or after update() has filled analogReadings
\* up to its last entry
InitAnalog ==
    /\ InitComm /\ InitServo /\ InitClient /\ InitFraming(<<>>) /\ InitBackend
    /\ \E index \in {0, ANALOG_SAMPLES - 1} : InitHardwareAt(index)

SpecAnalog == InitAnalog /\ [][NextHardware]_vars

(***************************************************************************)
(* Reading the latest step                                                 *)
(***************************************************************************)
ServerSteps == {"handleNewClients", "handleClientMessages", "updateNotDue",
                "sendDataToClients", "removeInactiveClients"}

\* The latest step was a handleClientMessages pass that took a line from
\* the socket of slot i.
ReadFrom(i) ==
    /\ step = "handleClientMessages"
    /\ Len(net[i].rx) < Len(pre.net[i].rx)

\* The line it took.
LineRead(i) == Head(pre.net[i].rx)

\* Slot i is the only slot the pass took a line from.
OnlyRead(i) == ReadFrom(i) /\ \A j \in Slots \ {i} : ~ReadFrom(j)

CommandOf(line) == line.doc.command
IsJson(line) == line.kind = "json"

ErrorLine(text) == [status |-> "error", message |-> text, timestamp |-> now]

\* Slot i holds the same session, with the same open transport, as before
\* the latest step.
SameSession(i) ==
    /\ pre.clients[i].active /\ clients[i].active
    /\ clients[i].client = pre.clients[i].client

(***************************************************************************)
(* C1: a session is unauthenticated from accept until that same session    *)
(* sends an auth command whose password is exactly the shared secret; an   *)
(* authenticated session stays authenticated until closeClient evicts it,  *)
(* and a session accepted into a reused slot starts unauthenticated.       *)
(***************************************************************************)
C1_AuthOnlyByPassword ==
    \A i \in Slots :
        /\ ~clients[i].active => ~clients[i].authenticated
        /\ step \in ServerSteps =>
            \* a newly accepted session is unauthenticated
            /\ (clients[i].active /\ clients[i].client # pre.clients[i].client)
                   => (step = "handleNewClients" /\ ~clients[i].authenticated)
            \* false -> true only by the correct auth command of this session
            /\ (~pre.clients[i].authenticated /\ clients[i].authenticated)
                   => /\ SameSession(i)
                      /\ ReadFrom(i)
                      /\ IsJson(LineRead(i))
                      /\ CommandOf(LineRead(i)) = <<"auth">>
                      /\ LineRead(i).doc.password = <<"IoTDevice2024">>
            \* true -> false only by eviction
            /\ (pre.clients[i].authenticated /\ ~clients[i].authenticated)
                   => /\ step = "removeInactiveClients"
                      /\ ~clients[i].active
                      /\ ~net[i].connected

\* The second connection, accepted into slot 0 after the first one was
\* evicted from it, authenticates.
C1_Witness ==
    /\ ReadFrom(0)
    /\ clients[0].client = 2
    /\ ~pre.clients[0].authenticated
    /\ clients[0].authenticated

(***************************************************************************)
(* C2: an unauthenticated session that sends a parseable line whose        *)
(* command is not auth gets the error "Authentication required", stays     *)
(* unauthenticated, and no LED changes.                                    *)
(***************************************************************************)
C2_Case(i) ==
    /\ ReadFrom(i)
    /\ ~pre.clients[i].authenticated
    /\ IsJson(LineRead(i))
    /\ CommandOf(LineRead(i)) # <<"auth">>

C2_AuthenticationRequired ==
    \A i \in Slots :
        C2_Case(i) =>
            /\ sent[i] = <<ErrorLine("Authentication required")>>
            /\ ~clients[i].authenticated
            /\ OnlyRead(i) => leds = pre.leds

\* An unauthenticated session asks for an LED while an LED could change:
\* set_led 1 on, from a session that has not authenticated.
C2_Witness ==
    \E i \in Slots :
        /\ C2_Case(i)
        /\ CommandOf(LineRead(i)) = <<"set_led">>
        /\ LineRead(i).doc.led = <<1>>
        /\ LineRead(i).doc.state = <<TRUE>>

(***************************************************************************)
(* C3: a connection that arrives while all MAX_CLIENTS slots are active    *)
(* is sent the "Server full" line and closed; no slot changes and          *)
(* activeClients is unchanged.                                             *)
(***************************************************************************)
C3_Case ==
    /\ step = "handleNewClients"
    /\ pre.newClient # NoConn
    /\ \A i \in Slots : pre.clients[i].active

C3_ServerFull ==
    C3_Case =>
        /\ refused = [conn |-> pre.newClient,
                      lines |-> <<[status |-> "error", message |-> "Server full"]>>,
                      stopped |-> TRUE]
        /\ clients = pre.clients
        /\ net = pre.net
        /\ activeClients = pre.activeClients
        /\ activeClients = MAX_CLIENTS
        /\ sent = NothingSent

C3_Witness == C3_Case /\ pre.newClient = MAX_CLIENTS + 1

(***************************************************************************)
(* C4: a run of the broadcaster, taken when more than UPDATE_INTERVAL has  *)
(* elapsed since lastUpdate, writes one and the same status payload to     *)
(* every session that is active, authenticated and connected, and nothing  *)
(* to any other session.                                                   *)
(***************************************************************************)
C4_Payload ==
    [type |-> "status", timestamp |-> now,
     leds |-> [k \in 1 .. 5 |-> [id |-> k, state |-> pre.leds[k - 1]]]]

C4_Broadcast ==
    /\ step = "sendDataToClients" =>
        /\ U32Less(U32(UPDATE_INTERVAL), U32Sub(now, lastUpdate))
        /\ \A i \in Slots :
            sent[i] = IF /\ pre.clients[i].active
                         /\ pre.clients[i].authenticated
                         /\ pre.net[i].connected
                      THEN <<C4_Payload>>
                      ELSE <<>>
        /\ clients = pre.clients /\ leds = pre.leds
    /\ step = "updateNotDue" =>
        /\ ~U32Less(U32(UPDATE_INTERVAL), U32Sub(now, lastUpdate))
        /\ sent = NothingSent

\* A broadcast with an authenticated session that gets the payload and an
\* unauthenticated, connected session that gets nothing.
C4_Witness ==
    /\ step = "sendDataToClients"
    /\ \E i, j \in Slots :
        /\ sent[i] # <<>>
        /\ clients[j].active /\ net[j].connected /\ ~clients[j].authenticated
        /\ sent[j] = <<>>

(***************************************************************************)
(* C5: a session, authenticated or not, whose lastHeartbeat is more than   *)
(* HEARTBEAT_TIMEOUT old when the reaper runs is evicted by that pass: its *)
(* transport is closed and its slot is inactive, so that findFreeClientSlot*)
(* offers the slot (or a lower one) to the next accept.                    *)
(***************************************************************************)
C5_Case(i) ==
    /\ step = "removeInactiveClients"
    /\ pre.clients[i].active
    /\ U32Less(U32(HEARTBEAT_TIMEOUT), U32Sub(now, pre.clients[i].lastHeartbeat))

C5_IdleEvicted ==
    \A i \in Slots :
        C5_Case(i) =>
            /\ ~clients[i].active
            /\ ~clients[i].authenticated
            /\ ~net[i].connected
            /\ clients[i].client = NoConn
            /\ activeClients < pre.activeClients
            /\ findFreeClientSlot(clients) \in 0 .. i

\* An authenticated session whose transport is still open is evicted for
\* being idle.
C5_Witness ==
    \E i \in Slots :
        /\ C5_Case(i)
        /\ pre.clients[i].authenticated
        /\ pre.net[i].connected

(***************************************************************************)
(* C6: for an authenticated session, set_led with led outside 1..5 (a      *)
(* missing led reads as 0) changes no LED and returns the error "Invalid   *)
(* LED number (1-5)"; set_led with led k in 1..5 writes LED index k-1 and  *)
(* no other LED, and returns success.                                      *)
(***************************************************************************)
C6_Case(i) ==
    /\ ReadFrom(i)
    /\ pre.clients[i].authenticated
    /\ IsJson(LineRead(i))
    /\ CommandOf(LineRead(i)) = <<"set_led">>

C6_Led(i) == IF LineRead(i).doc.led = <<>> THEN 0 ELSE LineRead(i).doc.led[1]
C6_State(i) == LineRead(i).doc.state = <<TRUE>>

C6_SetLed ==
    \A i \in Slots :
        C6_Case(i) =>
            IF C6_Led(i) \in 1 .. 5
            THEN /\ Len(sent[i]) = 1
                 /\ sent[i][1].status = "success"
                 /\ OnlyRead(i) =>
                        leds = [k \in LedIdx |->
                                   IF k = C6_Led(i) - 1 THEN C6_State(i)
                                   ELSE pre.leds[k]]
            ELSE /\ sent[i] = <<ErrorLine("Invalid LED number (1-5)")>>
                 /\ OnlyRead(i) => leds = pre.leds

\* LED 5 (index 4) is switched on by set_led 5.
C6_Witness ==
    \E i \in Slots :
        /\ C6_Case(i) /\ OnlyRead(i)
        /\ C6_Led(i) = 5
        /\ ~pre.leds[4] /\ leds[4]

(***************************************************************************)
(* C7: an auth command with a wrong or missing password gets the error     *)
(* "Invalid password"; the session stays unauthenticated, its transport    *)
(* stays open and its slot stays taken, and the correct auth command would *)
(* still authenticate it.                                                  *)
(***************************************************************************)
C7_Case(i) ==
    /\ ReadFrom(i)
    /\ ~pre.clients[i].authenticated
    /\ IsJson(LineRead(i))
    /\ CommandOf(LineRead(i)) = <<"auth">>
    /\ LineRead(i).doc.password # <<"IoTDevice2024">>

C7_CorrectAuth == JsonLine(Doc(<<"auth">>, <<"IoTDevice2024">>, <<>>, <<>>))

C7_InvalidPassword ==
    \A i \in Slots :
        C7_Case(i) =>
            /\ sent[i] = <<ErrorLine("Invalid password")>>
            /\ ~clients[i].authenticated
            /\ SameSession(i)
            /\ net[i].connected
            /\ activeClients = pre.activeClients
            /\ LET after == processClientMessage(Cur, i, C7_CorrectAuth) IN
                /\ after.clients[i].authenticated
                /\ after.sent[i][1].status = "success"

\* A session sends auth with no password.
C7_Witness ==
    \E i \in Slots : C7_Case(i) /\ LineRead(i).doc.password = <<>>

(***************************************************************************)
(* C8: in servo_server an auth command with a wrong password gets an error *)
(* response, leaves the client unauthenticated, and the server does not    *)
(* close the connection, so that the same connection can send a further    *)
(* auth command (C8_AsClaimed).  The loop of servo_server calls            *)
(* client.stop() after the error response: C8_WrongPasswordCloses states   *)
(* what it does.                                                           *)
(***************************************************************************)
C8_LineRead == Head(srvPre.client.rx)

C8_Case ==
    /\ srvStep = "line"
    /\ IsJson(C8_LineRead)
    /\ CommandOf(C8_LineRead) = <<"auth">>
    /\ C8_LineRead.doc.password # <<"IoTDevice2024">>

\* The code at C8's case: error response, flag and servos unchanged,
\* connection stopped.
C8_WrongPasswordCloses ==
    C8_Case =>
        /\ srvOut.lines = <<[status |-> "error", message |-> "Authentication failed"]>>
        /\ clientAuthenticated = srvPre.clientAuthenticated
        /\ myServos = srvPre.myServos
        /\ srvOut.stopped
        /\ ~client.connected
        /\ ~srvCrashed

\* An unauthenticated client sends auth with a wrong password.
C8_Witness ==
    /\ C8_Case
    /\ ~srvPre.clientAuthenticated
    /\ C8_LineRead.doc.password = <<"wrong">>

\* C8: after a wrong password from an unauthenticated client, the error
\* response is sent, the client is still unauthenticated and the connection
\* is still open.
C8_AsClaimed ==
    (C8_Case /\ ~srvPre.clientAuthenticated) =>
        /\ Len(srvOut.lines) = 1
        /\ srvOut.lines[1].status = "error"
        /\ ~clientAuthenticated
        /\ client.connected
        /\ ~srvOut.stopped

(***************************************************************************)
(* C9: a handleClientMessages pass writes exactly one response line to     *)
(* each session it read a non-empty line from, and nothing to any other    *)
(* session; a pass that read one line writes the response to that session  *)
(* only.                                                                   *)
(***************************************************************************)
C9_OneResponse ==
    step = "handleClientMessages" =>
        \A i \in Slots :
            Len(sent[i]) =
                IF ReadFrom(i) /\ LineRead(i).kind # "blank" THEN 1 ELSE 0

\* Two sessions are connected and the second one sends a line.
C9_Witness ==
    /\ OnlyRead(1)
    /\ LineRead(1).kind # "blank"
    /\ clients[0].active /\ net[0].connected

(***************************************************************************)
(* C10: a line that is not JSON gets the error "Invalid JSON"; it changes  *)
(* neither the authenticated flag of its session, nor another session,     *)
(* nor an LED, whether the session is authenticated or not.                *)
(***************************************************************************)
C10_Case(i) == ReadFrom(i) /\ LineRead(i).kind = "garbage"

C10_InvalidJson ==
    \A i \in Slots :
        C10_Case(i) =>
            /\ sent[i] = <<ErrorLine("Invalid JSON")>>
            /\ clients[i].authenticated = pre.clients[i].authenticated
            /\ SameSession(i)
            /\ OnlyRead(i) =>
                /\ leds = pre.leds
                /\ activeClients = pre.activeClients
                /\ \A j \in Slots \ {i} :
                    /\ clients[j] = pre.clients[j]
                    /\ net[j] = pre.net[j]
                    /\ sent[j] = <<>>

\* An authenticated session sends a line that is not JSON.
C10_Witness ==
    \E i \in Slots : C10_Case(i) /\ pre.clients[i].authenticated

(***************************************************************************)
(* C11: at most MAX_CLIENTS sessions are live, activeClients counts them,  *)
(* an inactive slot is empty, and two active slots never hold the same     *)
(* connection.  The transport of an active slot was open when the session  *)
(* was accepted; once the peer has closed it the slot stays active until   *)
(* the next removeInactiveClients pass, which empties every slot it finds  *)
(* active with a closed transport.                                         *)
(***************************************************************************)
C11_EmptySlot(i) ==
    /\ ~clients[i].authenticated
    /\ clients[i].clientId = NoClientId
    /\ clients[i].client = NoConn
    /\ ~net[i].connected

C11_SlotTable ==
    /\ activeClients = Cardinality({i \in Slots : clients[i].active})
    /\ activeClients <= MAX_CLIENTS
    /\ \A i \in Slots : ~clients[i].active => C11_EmptySlot(i)
    /\ \A i, j \in Slots :
        (clients[i].active /\ clients[j].active /\ i # j)
            => clients[i].client # clients[j].client
    /\ step = "handleNewClients" =>
        \A i \in Slots :
            (clients[i].active /\ ~pre.clients[i].active) => net[i].connected
    /\ step = "removeInactiveClients" =>
        \A i \in Slots :
            (pre.clients[i].active /\ ~pre.net[i].connected) => ~clients[i].active

\* The table is full, the peer of one session has closed its transport, and
\* the removeInactiveClients pass empties that slot.
C11_Witness ==
    /\ step = "removeInactiveClients"
    /\ pre.activeClients = MAX_CLIENTS
    /\ \E i \in Slots :
        /\ pre.clients[i].active /\ ~pre.net[i].connected
        /\ ~clients[i].active

\* C11 as stated: in every state the transport of every active slot is open.
C11_AsClaimed ==
    /\ activeClients <= MAX_CLIENTS
    /\ \A i \in Slots :
        IF clients[i].active THEN net[i].connected ELSE C11_EmptySlot(i)

(***************************************************************************)
(* C12: a connection accepted while a slot is free goes to the free slot   *)
(* of lowest index; the session starts active, unauthenticated, with       *)
(* lastHeartbeat = now, and the pass writes exactly one line to it, the    *)
(* auth challenge (status "auth_required"); no other slot changes and      *)
(* nothing else is written.                                                *)
(***************************************************************************)
C12_Case ==
    /\ step = "handleNewClients"
    /\ pre.newClient # NoConn
    /\ \E i \in Slots : ~pre.clients[i].active

C12_LowestFree(i) ==
    /\ ~pre.clients[i].active
    /\ \A j \in Slots : j < i => pre.clients[j].active

C12_Accept ==
    C12_Case =>
        \A i \in Slots :
            IF C12_LowestFree(i)
            THEN /\ clients[i].active
                 /\ clients[i].client = pre.newClient
                 /\ ~clients[i].authenticated
                 /\ clients[i].lastHeartbeat = now
                 /\ net[i].connected
                 /\ Len(sent[i]) = 1
                 /\ sent[i][1].status = "auth_required"
                 /\ sent[i][1].timestamp = now
                 /\ activeClients = pre.activeClients + 1
                 /\ refused = NothingRefused
            ELSE /\ clients[i] = pre.clients[i]
                 /\ net[i] = pre.net[i]
                 /\ sent[i] = <<>>

\* Slot 0 was freed while slot 1 is still held: the connection accepted
\* next, at a time after start, goes to slot 0.
C12_Witness ==
    /\ C12_Case
    /\ ~pre.clients[0].active
    /\ pre.clients[1].active
    /\ clients[0].active
    /\ now # U32(0)

(***************************************************************************)
(* C13: in servo_server no line a client sends is fatal: after any line,   *)
(* also a JSON object without a string "command" member, the sketch has    *)
(* not faulted and goes on serving.                                        *)
(***************************************************************************)
C13_Case ==
    /\ srvStep = "line"
    /\ IsJson(Head(srvPre.client.rx))
    /\ CommandOf(Head(srvPre.client.rx)) = <<>>

C13_NoFatalLine == srvStep = "line" => ~srvCrashed

\* The lines that are handled: every line except a JSON object without a
\* command leaves the sketch running.
C13_HandledLines == (srvStep = "line" /\ ~C13_Case) => ~srvCrashed

(***************************************************************************)
(* C14: in servo_server a set_servo command writes a servo exactly when    *)
(* the client is authenticated, servo_index is in 0 .. NUM_SERVOS - 1 and  *)
(* angle is in 0 .. 180 (each read as an int, 0 when the member is         *)
(* absent): it then writes that one servo and answers success.  An         *)
(* authenticated client with an index or angle out of range, and an        *)
(* unauthenticated client, get an error response and no servo is written.  *)
(* No other step writes a servo.                                           *)
(***************************************************************************)
C14_Line == Head(srvPre.client.rx)

C14_Case ==
    /\ srvStep = "line"
    /\ IsJson(C14_Line)
    /\ CommandOf(C14_Line) = <<"set_servo">>

C14_Index == AsInt(C14_Line.doc.servo_index)
C14_Angle == AsInt(C14_Line.doc.angle)

C14_InRange == C14_Index \in 0 .. (NUM_SERVOS - 1) /\ C14_Angle \in 0 .. 180

C14_SetServo ==
    /\ C14_Case =>
        /\ ~srvCrashed
        /\ ~srvOut.stopped
        /\ IF srvPre.clientAuthenticated /\ C14_InRange
           THEN /\ myServos = [srvPre.myServos EXCEPT ![C14_Index] = C14_Angle]
                /\ srvOut.lines = <<[status |-> "success"]>>
           ELSE /\ myServos = srvPre.myServos
                /\ Len(srvOut.lines) = 1
                /\ srvOut.lines[1].status = "error"
                /\ srvOut.lines[1].message =
                       IF srvPre.clientAuthenticated
                       THEN "Invalid servo index or angle"
                       ELSE "Not authenticated"
    /\ (srvStep \in {"accept", "line"} /\ myServos # srvPre.myServos) =>
        C14_Case /\ srvPre.clientAuthenticated /\ C14_InRange

\* An authenticated client moves the last servo to 180.
C14_Witness ==
    /\ C14_Case
    /\ srvPre.clientAuthenticated
    /\ C14_Line.doc.servo_index = <<3>>
    /\ C14_Line.doc.angle = <<180>>
    /\ myServos[3] = 180

\* An authenticated client sends an angle just above the range.
C14_WitnessRejected ==
    /\ C14_Case
    /\ srvPre.clientAuthenticated
    /\ C14_Line.doc.angle = <<181>>

(***************************************************************************)
(* C15: the timestamps of consecutive lines written to one session         *)
(* (responses, auth challenge, status broadcasts) never decrease, also     *)
(* when millis() has rolled over past 2^32 in between.                     *)
(***************************************************************************)
C15_Case(i) ==
    /\ step \in ServerSteps
    /\ SameSession(i)
    /\ pre.stamp[i] # <<>>
    /\ sent[i] # <<>>

C15_Timestamps ==
    \A i \in Slots :
        /\ C15_Case(i) => ~U32Less(sent[i][1].timestamp, pre.stamp[i][1])
        /\ \A k \in 1 .. (Len(sent[i]) - 1) :
            ~U32Less(sent[i][k + 1].timestamp, sent[i][k].timestamp)

\* A session gets a line after an earlier one, some time later.
C15_Later ==
    \E i \in Slots : C15_Case(i) /\ sent[i][1].timestamp # pre.stamp[i][1]

(***************************************************************************)
(* C16: an authenticated session that sends set_servo with an angle A in   *)
(* 0 .. 180 gets the response success, "Servo set to A degrees", and the   *)
(* servo angle becomes A, as the API notes of main.cpp say.                *)
(***************************************************************************)
C16_Case(i) ==
    /\ ReadFrom(i)
    /\ pre.clients[i].authenticated
    /\ IsJson(LineRead(i))
    /\ CommandOf(LineRead(i)) = <<"set_servo">>
    /\ LineRead(i).doc.angle # <<>>
    /\ LineRead(i).doc.angle[1] \in 0 .. 180

C16_SetServoDocumented ==
    \A i \in Slots :
        C16_Case(i) =>
            /\ sent[i] =
                   <<[status |-> "success",
                      message |-> "Servo set to "
                                  \o ToString(LineRead(i).doc.angle[1])
                                  \o " degrees",
                      timestamp |-> now]>>
            /\ currentServoAngle = LineRead(i).doc.angle[1]

\* What the dispatcher does with it: the command is not known to
\* processClientMessage, and the servo stays where it was.
C16_UnknownCommand ==
    \A i \in Slots :
        C16_Case(i) =>
            /\ sent[i] = <<ErrorLine("Unknown command")>>
            /\ currentServoAngle = 90

(***************************************************************************)
(* C17: controlServo writes a set_servo message exactly when the socket is *)
(* connected and the client is authenticated; in every other state the     *)
(* call writes nothing, emits no signal and changes nothing, and no other  *)
(* step ever writes a set_servo message (nothing is queued).               *)
(***************************************************************************)
C17_Unchanged ==
    /\ socketState = cliPre.socketState
    /\ authenticated = cliPre.authenticated
    /\ messageBuffer = cliPre.messageBuffer
    /\ authTimers = cliPre.authTimers
    /\ wire = cliPre.wire

C17_ControlServo ==
    /\ cliStep = "controlServo" =>
        /\ cliSignals = NoSignals
        /\ C17_Unchanged
        /\ IF cliPre.socketState = "Connected" /\ cliPre.authenticated
           THEN /\ Len(cliOut) = 1
                /\ cliOut[1].command = "set_servo"
                /\ cliOut[1].angle \in Angles
           ELSE cliOut = <<>>
    /\ \A k \in 1 .. Len(cliOut) :
        cliOut[k].command = "set_servo" => cliStep = "controlServo"

\* controlServo on a connected, authenticated client writes the message.
C17_Witness ==
    /\ cliStep = "controlServo"
    /\ cliPre.socketState = "Connected" /\ cliPre.authenticated
    /\ cliOut # <<>>

\* controlServo on a connected client that has not authenticated yet.
C17_WitnessDropped ==
    /\ cliStep = "controlServo"
    /\ cliPre.socketState = "Connected" /\ ~cliPre.authenticated
    /\ cliOut = <<>>

(***************************************************************************)
(* C18: when the socket is disconnected, in any state and also after       *)
(* authentication, authenticated becomes false and                         *)
(* connectionStateChanged(false) is emitted; after a following             *)
(* connectToHost the client is unauthenticated with an empty               *)
(* messageBuffer, and authenticated becomes true again only by a success   *)
(* response read from the new connection.                                  *)
(***************************************************************************)
C18_Disconnected ==
    /\ cliPre.socketState \in {"Connected", "Closing"}
    /\ socketState = "Unconnected"

C18_Emitted(signal) == \E k \in 1 .. Len(cliSignals) : cliSignals[k] = signal

\* The bytes the latest read consumed hold a success line that was sent on
\* the current connection.
C18_SuccessRead ==
    /\ cliStep = "dataReceived"
    /\ \E k \in 1 .. Len(cliPre.wire) :
        /\ cliPre.wire[k].nl
        /\ cliPre.wire[k].line.kind = "json"
        /\ cliPre.wire[k].line.doc.status = <<"success">>
        /\ cliPre.wire[k].conn = cliConnects

C18_Reconnect ==
    /\ cliStep \in {"peerCloses", "socketClosed"} =>
        /\ C18_Disconnected
        /\ ~authenticated
        /\ cliSignals[Len(cliSignals)] = connectionStateChanged(FALSE)
    /\ (cliStep # "init" /\ C18_Disconnected) =>
        C18_Emitted(connectionStateChanged(FALSE))
    /\ cliStep = "connectToHost" =>
        /\ ~authenticated
        /\ messageBuffer = <<>>
    /\ (cliStep # "init" /\ ~cliPre.authenticated /\ authenticated) =>
        C18_SuccessRead

\* The peer closes the connection of an authenticated client.
C18_Witness ==
    /\ cliStep = "peerCloses"
    /\ cliPre.authenticated
    /\ ~authenticated

\* The client authenticates on its second connection.
C18_WitnessReconnect ==
    /\ cliStep = "dataReceived"
    /\ cliConnects = 2
    /\ ~cliPre.authenticated /\ authenticated /\ socketState = "Connected"

(***************************************************************************)
(* C19: an error response read while the client is not authenticated makes *)
(* the client close the transport and emit errorOccurred with the server's *)
(* message, and the client stays unauthenticated: it does not become       *)
(* authenticated without a new connectToHost.                              *)
(***************************************************************************)
\* The latest read started with an empty buffer on an unauthenticated
\* client and its first line is an error response.
C19_Case ==
    /\ cliStep = "dataReceived"
    /\ ~cliPre.authenticated
    /\ cliPre.messageBuffer = <<>>
    /\ Len(cliPre.wire) - Len(wire) >= 2
    /\ cliPre.wire[1].line.kind = "json"
    /\ cliPre.wire[1].line.doc.status = <<"error">>

C19_Reported ==
    C18_Emitted(errorOccurred(
        "ESP32 Error: " \o QStr(cliPre.wire[1].line.doc.message)))

C19_ErrorIsFinal ==
    C19_Case =>
        /\ socketState # "Connected"
        /\ C19_Reported
        /\ ~authenticated

\* What the client does: it closes the transport and reports the error.
C19_ClosesAndReports ==
    C19_Case => (socketState # "Connected" /\ C19_Reported)

(***************************************************************************)
(* C20: the connected() signal arms the authenticate timer and writes      *)
(* nothing; when the timer fires, with no call from the caller, the client *)
(* writes the auth command with the configured password if the socket is   *)
(* still connected, and nothing otherwise.  The first success response     *)
(* read by an unauthenticated client sets authenticated and emits          *)
(* connectionStateChanged(true) once; success responses read after it      *)
(* emit no further connectionStateChanged(true).                           *)
(***************************************************************************)
C20_Count(signal) ==
    Cardinality({k \in 1 .. Len(cliSignals) : cliSignals[k] = signal})

C20_AuthMessage == [command |-> "auth", password |-> "IoTDevice2024"]

\* The latest read started with an empty buffer and its first line is a
\* success response.
C20_FirstSuccess ==
    /\ cliStep = "dataReceived"
    /\ cliPre.messageBuffer = <<>>
    /\ Len(cliPre.wire) - Len(wire) >= 2
    /\ cliPre.wire[1].line.kind = "json"
    /\ cliPre.wire[1].line.doc.status = <<"success">>

C20_Handshake ==
    /\ cliStep = "socketConnected" =>
        /\ authTimers = cliPre.authTimers + 1
        /\ cliOut = <<>>
        /\ ~authenticated
    /\ cliStep = "authenticate" =>
        /\ authTimers = cliPre.authTimers - 1
        /\ cliSignals = NoSignals
        /\ cliOut = IF cliPre.socketState = "Connected"
                    THEN <<C20_AuthMessage>> ELSE <<>>
    /\ \A k \in 1 .. Len(cliOut) :
        cliOut[k].command = "auth" => cliStep = "authenticate"
    /\ (C20_FirstSuccess /\ ~cliPre.authenticated) =>
        /\ authenticated
        /\ cliSignals[1] = connectionStateChanged(TRUE)
        /\ C20_Count(connectionStateChanged(TRUE)) = 1
    /\ (cliStep = "dataReceived" /\ cliPre.authenticated) =>
        /\ authenticated
        /\ C20_Count(connectionStateChanged(TRUE)) = 0

\* Two success responses arrive in one read on an unauthenticated client.
C20_Witness ==
    /\ C20_FirstSuccess
    /\ ~cliPre.authenticated
    /\ Len(cliPre.wire) - Len(wire) = 4
    /\ cliPre.wire[3].line.doc.status = <<"success">>
    /\ cliSignals = <<connectionStateChanged(TRUE)>>

\* The timer fires on a connected socket and the auth command is written.
C20_WitnessAuthSent ==
    /\ cliStep = "authenticate"
    /\ cliOut = <<C20_AuthMessage>>

\* The timer fires after the socket was closed.
C20_WitnessTimerLate ==
    /\ cliStep = "authenticate"
    /\ cliPre.socketState = "Unconnected"

(***************************************************************************)
(* C21: however the bytes that have arrived were split into reads, the     *)
(* objects passed to processMessage and the text left in messageBuffer are *)
(* those of a single read of the same bytes: one object per complete       *)
(* non-empty line, in order, the incomplete last line kept in the buffer.  *)
(***************************************************************************)
\* the bytes read so far
C21_Read == SubSeq(frSent, 1, Len(frSent) - Len(frWire))

C21_Unfragmented == receive(NothingReceived, C21_Read)

C21_Fragments ==
    /\ frPassed = C21_Unfragmented.passed
    /\ frBuffer = C21_Unfragmented.buffer

\* It is so as long as no read has ended inside a multi-byte character.
C21_WholeCharacters == ~frSplit => C21_Fragments

\* An object and an incomplete second line have been read.
C21_WitnessWhole ==
    /\ ~frSplit
    /\ frWire = <<>>
    /\ frPassed = << <<>> >>
    /\ frBuffer = <<"{">>

(***************************************************************************)
(* C22: a session whose transport reports disconnected is written nothing  *)
(* by any step of update(), neither a response nor a broadcast, and the    *)
(* next removeInactiveClients pass evicts it: the slot is emptied and      *)
(* activeClients goes down by one for every session evicted.               *)
(***************************************************************************)
C22_Closed(i) == pre.clients[i].active /\ ~pre.net[i].connected

C22_Evicted == {i \in Slots : pre.clients[i].active /\ ~clients[i].active}

C22_ClosedSession ==
    \A i \in Slots :
        (step \in ServerSteps /\ C22_Closed(i)) =>
            /\ sent[i] = <<>>
            /\ step # "removeInactiveClients" =>
                /\ clients[i] = pre.clients[i]
                /\ ~net[i].connected
            /\ step = "removeInactiveClients" =>
                /\ ~clients[i].active
                /\ C11_EmptySlot(i)
                /\ activeClients = pre.activeClients - Cardinality(C22_Evicted)
                /\ activeClients < pre.activeClients

\* An authenticated session whose peer has closed is passed over by the
\* broadcast.
C22_WitnessBroadcast ==
    /\ step = "sendDataToClients"
    /\ \E i \in Slots : C22_Closed(i) /\ pre.clients[i].authenticated

\* The pass that follows evicts it although it has not been idle for long.
C22_Witness ==
    /\ step = "removeInactiveClients"
    /\ \E i \in Slots :
        /\ C22_Closed(i)
        /\ pre.clients[i].authenticated
        /\ ~HeartbeatExpired(pre.clients[i].lastHeartbeat)
        /\ ~clients[i].active

(***************************************************************************)
(* C23: a session leaves its slot, and its open transport is closed by the *)
(* server, only in a removeInactiveClients pass that finds its transport   *)
(* disconnected or its lastHeartbeat more than HEARTBEAT_TIMEOUT old.  No  *)
(* line it sends evicts it, whatever the outcome, and a connected session  *)
(* whose last non-empty line is at most 30000 ms old stays.                *)
(***************************************************************************)
C23_Gone(i) ==
    /\ pre.clients[i].active
    /\ \/ ~clients[i].active
       \/ clients[i].client # pre.clients[i].client
       \/ (pre.net[i].connected /\ ~net[i].connected)

C23_Idle(i) == U32Sub(now, pre.clients[i].lastHeartbeat)

C23_EvictedOnlyIf ==
    \A i \in Slots :
        (step \in ServerSteps /\ C23_Gone(i)) =>
            /\ step = "removeInactiveClients"
            /\ \/ ~pre.net[i].connected
               \/ U32Less(U32(30000), C23_Idle(i))

\* A connected session idle for exactly 30000 ms stays.
C23_Witness ==
    /\ step = "removeInactiveClients"
    /\ \E i \in Slots :
        /\ pre.clients[i].active /\ pre.net[i].connected
        /\ C23_Idle(i) = U32(30000)
        /\ SameSession(i) /\ net[i].connected

\* Two sessions were accepted at time 0 and the first has sent a line at
\* 30001, which was refused: the pass evicts the second and keeps the first.
C23_WitnessKeptAlive ==
    /\ step = "removeInactiveClients"
    /\ now = U32(30001)
    /\ pre.clients[0].client = 1 /\ pre.clients[1].client = 2
    /\ pre.net[0].connected /\ pre.net[1].connected
    /\ ~pre.clients[0].authenticated
    /\ pre.clients[1].lastHeartbeat = U32(0)
    /\ pre.clients[0].lastHeartbeat = now
    /\ SameSession(0) /\ net[0].connected
    /\ ~clients[1].active

(***************************************************************************)
(* C24: an authenticated session that sends a parseable line whose command *)
(* is none of set_led, set_all_leds, get_status and ping (a missing        *)
(* command, set_servo, or auth again with any password) gets the error     *)
(* "Unknown command", stays authenticated, and no LED changes.             *)
(***************************************************************************)
C24_Known == {<<"set_led">>, <<"set_all_leds">>, <<"get_status">>, <<"ping">>}

C24_Case(i) ==
    /\ ReadFrom(i)
    /\ pre.clients[i].authenticated
    /\ IsJson(LineRead(i))
    /\ CommandOf(LineRead(i)) \notin C24_Known

C24_WitnessRightPassword ==
    \E i \in Slots :
        /\ C24_Case(i)
        /\ CommandOf(LineRead(i)) = <<"auth">>
        /\ LineRead(i).doc.password = <<"IoTDevice2024">>

(***************************************************************************)
(* C25: reading and processing a line of session i leaves the record       *)
(* (active, authenticated, lastHeartbeat, clientId) and the transport of   *)
(* every other session as they were, and writes nothing to it, whatever    *)
(* the line is.                                                            *)
(***************************************************************************)
\* the state the latest handleClientMessages pass started from
C25_Before ==
    [clients |-> pre.clients, activeClients |-> pre.activeClients,
     net |-> pre.net, leds |-> pre.leds, servo |-> currentServoAngle,
     sent |-> NothingSent, refused |-> NothingRefused]

C25_OtherSessions ==
    step = "handleClientMessages" =>
        /\ \A j \in Slots :
            ~ReadFrom(j) =>
                /\ clients[j] = pre.clients[j]
                /\ net[j] = pre.net[j]
                /\ sent[j] = <<>>
        /\ \A i \in Slots :
            LET after == readClient(C25_Before, i) IN
            /\ after.activeClients = pre.activeClients
            /\ \A j \in Slots \ {i} :
                /\ after.clients[j] = pre.clients[j]
                /\ after.net[j] = pre.net[j]
                /\ after.sent[j] = <<>>

\* A session authenticates while another, accepted at an earlier time, is
\* connected and unauthenticated.
C25_Witness ==
    \E i, j \in Slots :
        /\ i # j
        /\ OnlyRead(i)
        /\ ~pre.clients[i].authenticated /\ clients[i].authenticated
        /\ clients[j].active /\ net[j].connected
        /\ ~clients[j].authenticated
        /\ clients[j].lastHeartbeat # now

(***************************************************************************)
(* C26: the lastHeartbeat of a session becomes the current time when a     *)
(* line that is not blank is read from it, whether or not the line parses  *)
(* and whether or not the session is authenticated; in every other step    *)
(* (a blank line read, a response or a broadcast written, a pass that      *)
(* leaves the session in its slot) it keeps its value.                     *)
(***************************************************************************)
C26_Renewed(i) == ReadFrom(i) /\ LineRead(i).kind # "blank"

C26_LastHeartbeat ==
    \A i \in Slots :
        (step \in ServerSteps /\ SameSession(i)) =>
            clients[i].lastHeartbeat =
                IF C26_Renewed(i) THEN now ELSE pre.clients[i].lastHeartbeat

\* A line that does not parse renews the lastHeartbeat of an
\* unauthenticated session.
C26_Witness ==
    \E i \in Slots :
        /\ SameSession(i)
        /\ ReadFrom(i)
        /\ LineRead(i).kind = "garbage"
        /\ ~pre.clients[i].authenticated
        /\ pre.clients[i].lastHeartbeat # now
        /\ clients[i].lastHeartbeat = now

\* A blank line read at a later time does not.
C26_WitnessBlank ==
    \E i \in Slots :
        /\ SameSession(i)
        /\ ReadFrom(i)
        /\ LineRead(i).kind = "blank"
        /\ clients[i].lastHeartbeat # now

\* A broadcast written at a later time does not.
C26_WitnessBroadcast ==
    \E i \in Slots :
        /\ step = "sendDataToClients"
        /\ SameSession(i)
        /\ sent[i] # <<>>
        /\ clients[i].lastHeartbeat # now

(***************************************************************************)
(* C27: closeClient on a slot that is not active changes nothing:          *)
(* activeClients keeps its value and no transport is closed.  On an active *)
(* slot it closes the transport, empties the slot and decrements           *)
(* activeClients, and a second call on the same slot changes nothing more. *)
(***************************************************************************)
C27_Idempotent ==
    \A i \in Slots :
        LET once == closeClient(Cur, i)
            twice == closeClient(once, i) IN
        /\ twice = once
        /\ ~clients[i].active => once = Cur
        /\ clients[i].active =>
            /\ ~once.clients[i].active
            /\ ~once.net[i].connected
            /\ once.activeClients = activeClients - 1
            /\ \A j \in Slots \ {i} :
                once.clients[j] = clients[j] /\ once.net[j] = net[j]

\* closeClient has emptied a slot whose transport was open, other sessions
\* are active, and closeClient on the emptied slot leaves the table as is.
C27_Witness ==
    /\ step = "removeInactiveClients"
    /\ activeClients > 0
    /\ \E i \in Slots :
        /\ pre.clients[i].active /\ pre.net[i].connected
        /\ ~clients[i].active
        /\ closeClient(Cur, i) = Cur

(***************************************************************************)
(* C28: one call of update() runs handleNewClients once and                *)
(* handleClientMessages once.  handleNewClients takes at most one waiting  *)
(* connection, the oldest; handleClientMessages takes at most one line     *)
(* from each session, the oldest, and answers that line, so that the lines *)
(* a session has pending are processed one per update(), in the order they *)
(* were sent.                                                              *)
(***************************************************************************)
C28_Accepted ==
    {i \in Slots : clients[i].active /\ clients[i].client # pre.clients[i].client}

C28_OnePerUpdate ==
    /\ step = "handleNewClients" =>
        /\ pc = "messages"
        /\ Cardinality(C28_Accepted) <= 1
        /\ \A i \in C28_Accepted : clients[i].client = pre.newClient
        /\ backlog = IF pre.newClient = NoConn THEN 0 ELSE conns - pre.newClient
    /\ step = "handleClientMessages" =>
        /\ pc = "periodic"
        /\ \A i \in Slots :
            /\ Len(sent[i]) <= 1
            /\ \/ net[i].rx = pre.net[i].rx
               \/ pre.net[i].rx # <<>> /\ net[i].rx = Tail(pre.net[i].rx)
            /\ ReadFrom(i) =>
                /\ net[i].rx = Tail(pre.net[i].rx)
                /\ sent[i] = readClient(C25_Before, i).sent[i]
    /\ step \in ServerSteps \ {"handleClientMessages"} =>
        \A i \in Slots : pre.clients[i].active => net[i].rx \in {pre.net[i].rx, <<>>}

\* A session has two different lines pending; the pass reads the first,
\* answers it, and leaves the second.
C28_Witness ==
    \E i \in Slots :
        /\ ReadFrom(i)
        /\ Len(pre.net[i].rx) = 2
        /\ pre.net[i].rx[1].kind = "garbage"
        /\ net[i].rx = <<pre.net[i].rx[2]>>
        /\ net[i].rx[1].kind = "json"
        /\ sent[i] = <<ErrorLine("Invalid JSON")>>

\* The second line is read by the pass of the next update().
C28_WitnessSecond ==
    \E i \in Slots :
        /\ ReadFrom(i)
        /\ nlines = 2
        /\ Len(pre.net[i].rx) = 1
        /\ pre.net[i].rx[1].kind = "json"
        /\ pre.stamp[i] # <<>>
        /\ sent[i] = <<ErrorLine("Authentication required")>>

\* Two connections wait; the pass accepts the first and leaves the second.
C28_WitnessAccept ==
    /\ step = "handleNewClients"
    /\ pre.newClient = 1
    /\ backlog = 1
    /\ Cardinality(C28_Accepted) = 1

(***************************************************************************)
(* C29: isButtonPressed(i) returns true exactly when update() has seen a   *)
(* debounced press edge of button i (buttonStates[i] going from false to   *)
(* true) since the previous call for that button, so that one edge gives   *)
(* true to at most one call and the calls after it give false until the    *)
(* next edge.  The call clears the flag of button i and leaves the flag of *)
(* every other button as it was; a number that is not a button gives false *)
(* and changes no flag.                                                    *)
(***************************************************************************)
C29_IsButton(n) == n \in 0 .. 4

C29_PressedOnce ==
    /\ hwStep = "isButtonPressed" =>
        /\ hwResult = (C29_IsButton(hwArg) /\ hwPre.edgeSince[hwArg])
        /\ \A j \in 0 .. 4 :
            buttonPressed[j] = (hwPre.buttonPressed[j] /\ j # hwArg)
        /\ buttonStates = hwPre.buttonStates
    /\ hwStep = "update" =>
        \A j \in 0 .. 4 :
            buttonPressed[j] =
                (hwPre.buttonPressed[j]
                    \/ (~hwPre.buttonStates[j] /\ buttonStates[j]))

\* After a press edge of both buttons, the call for the first returns true
\* and leaves the flag of the last set.
C29_Witness ==
    /\ hwStep = "isButtonPressed"
    /\ hwArg = 0
    /\ hwResult
    /\ buttonStates[0] /\ buttonStates[4]
    /\ hwPre.buttonPressed[4] /\ buttonPressed[4]
    /\ ~buttonPressed[0]

\* The next call for the same button returns false: the button is still
\* held and there has been no new edge.
C29_WitnessSecondCall ==
    /\ hwStep = "isButtonPressed"
    /\ hwArg = 0
    /\ ~hwResult
    /\ buttonStates[0]
    /\ buttonDown[0]
    /\ ~hwPre.edgeSince[0]

\* A button held for exactly DEBOUNCE_DELAY gives no edge yet.
C29_WitnessBounce ==
    /\ hwStep = "update"
    /\ now = U32(50)
    /\ buttonDown[0] /\ lastButtonStates[0] /\ hwUpdates = 2
    /\ lastDebounceTime[0] = U32(0)
    /\ ~buttonStates[0]

(***************************************************************************)
(* C30: Backend::disconnectFromDevice, called in any state (also while the *)
(* socket is connected, when connectionStateChanged(false) is delivered    *)
(* from inside ESP32Client::disconnect and re-enters it), never calls a    *)
(* method on m_espClient after m_espClient has become null, schedules the  *)
(* client for deletion exactly once, and ends with m_espClient null and    *)
(* m_isConnected false.                                                    *)
(***************************************************************************)
C30_Called == beStep = "disconnectFromDevice"

C30_AsClaimed ==
    C30_Called =>
        /\ beNullCalls = 0
        /\ beDeleted = (IF bePre.m_espClient THEN 1 ELSE 0)
        /\ ~beCrashed
        /\ ~m_espClient
        /\ ~m_isConnected

\* The part that holds: the deletion is scheduled once, m_espClient is used
\* after it became null only when the call was re-entered (the socket
\* closed within disconnect()), and a call that does not fault
\* ends with m_espClient null and m_isConnected false.
C30_ScheduledOnce ==
    C30_Called =>
        /\ beDeleted = (IF bePre.m_espClient THEN 1 ELSE 0)
        /\ beNullCalls \in {0, 1}
        /\ beNullCalls = 1 =>
               /\ bePre.m_espClient
               /\ bePre.socketState # "Unconnected"
               /\ socketState = "Unconnected"
        /\ ( /\ bePre.m_espClient
             /\ bePre.socketState \in {"Connected", "Closing"}
             /\ socketState = "Unconnected" ) => beNullCalls = 1
        /\ beCrashed => beNullCalls = 1
        /\ ~beCrashed => ~m_espClient /\ ~m_isConnected

\* called while the socket was connecting: nothing is emitted
C30_Witness ==
    /\ C30_Called
    /\ bePre.m_espClient
    /\ bePre.socketState = "Connecting"
    /\ beDeleted = 1
    /\ beNullCalls = 0
    /\ ~m_espClient

\* called while the socket was connected: the call is re-entered
C30_WitnessReentered ==
    /\ C30_Called
    /\ bePre.m_espClient
    /\ bePre.socketState = "Connected"
    /\ beNullCalls = 1
    /\ beDeleted = 1

(***************************************************************************)
(* C31: ESP32Client never sets authenticated to true and never emits       *)
(* connectionStateChanged(true) while its socket is not in the connected   *)
(* state; lines still in messageBuffer after the client closed the socket  *)
(* in response to an error line cannot authenticate it.                    *)
(***************************************************************************)
\* In a step nothing closes the socket after authenticated was set: the
\* socket state the step ends in is the one the flag was set in.
C31_BecameAuthenticated ==
    /\ cliStep # "init"
    /\ \/ ~cliPre.authenticated /\ authenticated
       \/ C18_Emitted(connectionStateChanged(TRUE))

C31_OnlyWhileConnected == C31_BecameAuthenticated => socketState = "Connected"

\* The part that holds: authenticated is set only by a read, which began
\* on a connected socket, and the flag and the signal go together.
C31_ReadBeganConnected ==
    C31_BecameAuthenticated =>
        /\ cliStep = "dataReceived"
        /\ cliPre.socketState = "Connected"
        /\ ~cliPre.authenticated /\ authenticated
        /\ C20_Count(connectionStateChanged(TRUE)) = 1

\* an error line and a success line in one read: the client is
\* authenticated on a socket it has closed
C31_Witness ==
    /\ C31_BecameAuthenticated
    /\ socketState \in {"Unconnected", "Closing"}
    /\ C18_Emitted(errorOccurred("ESP32 Error: Invalid password"))

\* the ordinary case
C31_WitnessConnected ==
    /\ C31_BecameAuthenticated
    /\ socketState = "Connected"

(***************************************************************************)
(* C32: ESP32Client sends at most one auth command per established         *)
(* connection, for every interleaving of connectToHost, disconnect, socket *)
(* events and firings of the single-shot authenticate timers, also of a    *)
(* timer started on an earlier connection that fires after a reconnect.    *)
(***************************************************************************)
C32_OneAuthPerConnection == cliAuthSent <= 1

\* The part that holds: a second auth command on one connection needs a
\* timer of an earlier connection, so a second call of connectToHost.
C32_FirstConnection == cliConnects <= 1 => cliAuthSent <= 1

\* the auth command of the first connection
C32_Witness ==
    /\ cliConnects = 1
    /\ cliStep = "authenticate"
    /\ cliAuthSent = 1

\* a timer of the first connection fires on the second one, after the
\* timer of the second
C32_WitnessStaleTimer ==
    /\ cliConnects = 2
    /\ cliStep = "authenticate"
    /\ cliAuthSent = 2

(***************************************************************************)
(* C33: for any peer behaviour, ESP32Client becomes authenticated on a     *)
(* connection only after it has sent its auth command on that connection:  *)
(* a success response that arrives before the auth command has been sent   *)
(* (during the 500 ms delay) does not authenticate the client.             *)
(***************************************************************************)
C33_Became == cliStep = "dataReceived" /\ ~cliPre.authenticated /\ authenticated

C33_AfterAuthSent == C33_Became => cliAuthSent >= 1

\* The part that holds: the client becomes authenticated by a success
\* response read from the connection the socket had when the read began,
\* whether the auth command has been sent or not.
C33_BySuccessResponse ==
    C33_Became =>
        /\ C18_SuccessRead
        /\ cliPre.socketState = "Connected"
        /\ C20_Count(connectionStateChanged(TRUE)) = 1

\* the success response answers the auth command
C33_Witness ==
    /\ C33_Became
    /\ cliAuthSent = 1
    /\ socketState = "Connected"

\* the success response is read while the timer has not fired yet
C33_WitnessEarly ==
    /\ C33_Became
    /\ cliAuthSent = 0
    /\ authTimers > 0
    /\ socketState = "Connected"

(***************************************************************************)
(* C34: whenever no signal handler is running, Backend's m_isConnected is  *)
(* true if and only if m_espClient is not null and                         *)
(* m_espClient->isConnected() is true; an error response received while    *)
(* authenticated, or a success line processed after a disconnect, does not *)
(* leave the two out of step.                                              *)
(***************************************************************************)
C34_ClientConnected ==
    m_espClient /\ socketState = "Connected" /\ authenticated

C34_InStep == ~beCrashed => (m_isConnected <=> C34_ClientConnected)

\* The part that holds: the two agree after a step that did not fault
\* and in which the client gave no errorOccurred and was not given up.
C34_InStepWithoutError ==
    (/\ ~beCrashed
     /\ beStep \in {"dataReceived", "peerSends", "authenticate",
                    "setRot1Angle", "socketConnected"}
     /\ m_espClient
     /\ \A k \in 1 .. Len(cliSignals) : cliSignals[k].name # "errorOccurred"
     /\ (bePre.m_isConnected <=>
            (bePre.m_espClient /\ bePre.socketState = "Connected"
                               /\ bePre.authenticated)))
    => (m_isConnected <=> C34_ClientConnected)

\* the client authenticates and the Backend follows
C34_Witness ==
    /\ beStep = "dataReceived"
    /\ ~bePre.m_isConnected
    /\ m_isConnected
    /\ C34_ClientConnected

\* an error response read by an authenticated client
C34_WitnessErrorWhileAuthenticated ==
    /\ beStep = "dataReceived"
    /\ bePre.m_isConnected
    /\ ~m_isConnected
    /\ C34_ClientConnected

\* a success line processed after the error line that closed the socket
C34_WitnessSuccessAfterClose ==
    /\ beStep = "dataReceived"
    /\ ~beCrashed
    /\ ~m_espClient
    /\ m_isConnected

(***************************************************************************)
(* C35: assuming the control loop keeps running and time advances, a       *)
(* CommunicationModule session that never authenticates is eventually      *)
(* evicted and its slot freed, whatever lines it sends.                    *)
(***************************************************************************)
C35_Unauthenticated(i) == clients[i].active /\ ~clients[i].authenticated

C35_EventuallyEvicted ==
    \A i \in Slots : []<>(~C35_Unauthenticated(i))

\* a non-empty line of the session in slot i waits to be read
C35_Renews(i) == net[i].rx # <<>> /\ net[i].rx[1].kind # "blank"

\* As amended: a session that never authenticates is eventually evicted if
\* from some time on no non-empty line arrives from it.  Every non-empty
\* line, also a rejected one, renews lastHeartbeat.
C35_SilentEvicted ==
    \A i \in Slots : []<>(~C35_Unauthenticated(i) \/ C35_Renews(i))

\* an unauthenticated session whose transport is open is evicted for its
\* idle time
C35_Witness ==
    /\ step = "removeInactiveClients"
    /\ \E i \in Slots :
        /\ pre.clients[i].active
        /\ ~pre.clients[i].authenticated
        /\ pre.net[i].connected
        /\ ~clients[i].active

\* an unauthenticated session is kept by the pass that follows a clock
\* advance, because a line of it was read before the idle test
C35_WitnessKeptAlive ==
    /\ step = "removeInactiveClients"
    /\ now # U32(0)
    /\ \E i \in Slots :
        /\ C35_Unauthenticated(i)
        /\ pre.clients[i].active
        /\ pre.clients[i].lastHeartbeat = now
        /\ stamp[i] # <<>>
        /\ stamp[i][1] = now

(***************************************************************************)
(* C36: in every reachable state of CommunicationModule, activeClients     *)
(* equals the number of slots whose active flag is true, and               *)
(* 0 <= activeClients <= MAX_CLIENTS, after any sequence of accepts,       *)
(* rejections, commands and evictions.                                     *)
(***************************************************************************)
C36_ActiveSlots == {i \in Slots : clients[i].active}

C36_ActiveClients ==
    /\ activeClients = Cardinality(C36_ActiveSlots)
    /\ 0 <= activeClients
    /\ activeClients <= MAX_CLIENTS

\* a connection is refused by the full table
C36_Witness ==
    /\ step = "handleNewClients"
    /\ refused # NothingRefused
    /\ activeClients = MAX_CLIENTS
    /\ pre.activeClients = MAX_CLIENTS

\* a pass evicts several sessions at once
C36_WitnessEvictions ==
    /\ step = "removeInactiveClients"
    /\ pre.activeClients - activeClients >= 2

\* a session is accepted into a slot another session was evicted from
C36_WitnessReuse ==
    /\ step = "handleNewClients"
    /\ activeClients = pre.activeClients + 1
    /\ \E i \in Slots :
        /\ ~pre.clients[i].active /\ clients[i].active
        /\ clients[i].client > i + 1

(***************************************************************************)
(* C37: the reaper's idle test (millis() - lastHeartbeat >                 *)
(* HEARTBEAT_TIMEOUT in 32-bit unsigned arithmetic) gives the correct      *)
(* decision across a rollover of millis(): a connected session whose last  *)
(* line arrived at most 30000 ms ago is not evicted, and one whose last    *)
(* line arrived more than 30000 ms ago is evicted, also when millis() has  *)
(* wrapped past 2^32 since lastHeartbeat was set.                          *)
(***************************************************************************)
\* The time t in ms counted from the rollover, negative before it: the
\* behaviours of SpecWrap stay within 2^31 ms of the rollover.
C37_SinceRollover(t) ==
    IF t.hi >= HalfWord \div 2 THEN (t.hi - HalfWord) * HalfWord + t.lo
    ELSE t.hi * HalfWord + t.lo

\* the time since the last line, not reduced modulo 2^32
C37_Idle(i) ==
    C37_SinceRollover(now) - C37_SinceRollover(pre.clients[i].lastHeartbeat)

C37_Case(i) ==
    /\ step = "removeInactiveClients"
    /\ pre.clients[i].active
    /\ pre.net[i].connected

C37_IdleTest ==
    \A i \in Slots :
        C37_Case(i) =>
            /\ C37_Idle(i) >= 0
            /\ C37_Idle(i) <= 30000 => (SameSession(i) /\ net[i].connected)
            /\ C37_Idle(i) > 30000 => (~clients[i].active /\ ~net[i].connected)

\* millis() has rolled over since the last line, 30001 ms ago: evicted
C37_Witness ==
    \E i \in Slots :
        /\ C37_Case(i)
        /\ U32Less(now, pre.clients[i].lastHeartbeat)
        /\ C37_Idle(i) = 30001
        /\ ~clients[i].active

\* millis() has rolled over since the last line, 30000 ms ago: kept
C37_WitnessKept ==
    \E i \in Slots :
        /\ C37_Case(i)
        /\ U32Less(now, pre.clients[i].lastHeartbeat)
        /\ C37_Idle(i) = 30000
        /\ SameSession(i)

(***************************************************************************)
(* C38: in HardwareModule::update, the debounced state buttonStates[i]     *)
(* changes to a value v only when the raw reading of button i has been v   *)
(* at every update call over a span of more than DEBOUNCE_DELAY (50 ms); a *)
(* raw reading that flips back within 50 ms never changes buttonStates[i]  *)
(* and never sets buttonPressed[i].                                        *)
(***************************************************************************)
\* a time of the hardware behaviours in ms: they stay far below 2^31
C38_Ms(t) == t.hi * HalfWord + t.lo

\* for how long the update calls have read the value they read now
C38_Span(i) == C38_Ms(now) - C38_Ms(readRun[i][1].since)

C38_Changed(i) ==
    /\ hwStep = "update"
    /\ \/ buttonStates[i] # hwPre.buttonStates[i]
       \/ buttonPressed[i] /\ ~hwPre.buttonPressed[i]

C38_Debounced ==
    \A i \in ButtonIdx :
        /\ C38_Changed(i) =>
            /\ readRun[i][1].reading = buttonStates[i]
            /\ C38_Span(i) > DEBOUNCE_DELAY
        /\ (hwStep = "update" /\ buttonPressed[i] /\ ~hwPre.buttonPressed[i]) =>
            (buttonStates[i] /\ ~hwPre.buttonStates[i])

\* the button has read pressed at the update calls for 51 ms
C38_Witness ==
    /\ C38_Changed(0)
    /\ buttonStates[0]
    /\ buttonPressed[0]
    /\ C38_Span(0) = DEBOUNCE_DELAY + 1

\* the button has read pressed for exactly 50 ms: nothing changes
C38_WitnessAtLimit ==
    /\ hwStep = "update"
    /\ readRun[0] # <<>>
    /\ readRun[0][1].reading
    /\ C38_Span(0) = DEBOUNCE_DELAY
    /\ ~buttonStates[0]
    /\ ~buttonPressed[0]

\* the button was let go within 50 ms, and 51 ms after it was pushed
\* nothing has changed
C38_WitnessBounce ==
    /\ hwStep = "update"
    /\ readRun[0] # <<>>
    /\ ~readRun[0][1].reading
    /\ C38_Ms(readRun[0][1].since) = DEBOUNCE_DELAY
    /\ C38_Ms(now) = 2 * DEBOUNCE_DELAY + 1
    /\ hwToggles = 2
    /\ ~buttonStates[0]
    /\ ~buttonPressed[0]

(***************************************************************************)
(* C39: in HardwareModule, after init and after every update call,         *)
(* analogTotal equals the sum of the ANALOG_SAMPLES entries of             *)
(* analogReadings and analogIndex is in [0, ANALOG_SAMPLES); hence, for    *)
(* raw ADC readings in 0..4095, getAnalogValue is in 0..4095.              *)
(***************************************************************************)
\* analogReadings[0] + ... + analogReadings[n - 1]
RECURSIVE C39_Sum(_)
C39_Sum(n) == IF n = 0 THEN 0 ELSE C39_Sum(n - 1) + analogReadings[n - 1]

C39_Smoothing ==
    /\ analogTotal = C39_Sum(ANALOG_SAMPLES)
    /\ analogIndex \in 0 .. (ANALOG_SAMPLES - 1)
    /\ \A k \in SampleIdx : analogReadings[k] \in 0 .. 4095
    /\ getAnalogValue(HwCur) \in 0 .. 4095

\* update() has written the last entry of analogReadings with the highest
\* reading and gone back to the first
C39_Witness ==
    /\ hwStep = "update"
    /\ analogIndex = 0
    /\ analogReadings[ANALOG_SAMPLES - 1] = 4095
    /\ analogTotal = (ANALOG_SAMPLES - 1) * PotStart + 4095

\* four update calls with the potentiometer at 0
C39_WitnessLow ==
    /\ hwStep = "update"
    /\ analogIndex = 4
    /\ \A k \in 0 .. 3 : analogReadings[k] = 0
    /\ getAnalogValue(HwCur) = ((ANALOG_SAMPLES - 4) * PotStart) \div ANALOG_SAMPLES

====
